---- MODULE Spec2Model ----
(***************************************************************************)
(* Action Graph Game engine (src/src/games/agg/agg.cc): construction of    *)
(* the game object and its payoff oracle, as a state machine over game     *)
(* objects and the scratch buffers they own.                               *)
(***************************************************************************)
EXTENDS Integers, Sequences, FiniteSets, TLC

(***************************************************************************)
(* Bounds of the model.                                                    *)
(***************************************************************************)
\* probabilities offered to the oracle lie on the grid 0, 1/Den, ..., 1
Den == 2
\* the game files offered to the constructor are GameFile(1..NumGames)
NumGames == 5
\* oracle calls made on one run
MaxCalls == 2
\* the longest MAPPING table offered to makeMAPPINGpayoff on its own
MaxEntries == 3
\* the largest total and the largest number of parts of the compositions
\* enumerated on their own
MaxTotal == 4
MaxParts == 4
\* the largest number of nodes of the game trees laid out
MaxNodes == 4

(***************************************************************************)
(* AggNumber: exact rational arithmetic, <<numerator, denominator>> in     *)
(* lowest terms with a positive denominator.                               *)
(***************************************************************************)
Abs(x) == IF x < 0 THEN -x ELSE x

RECURSIVE GCD(_, _)
GCD(a, b) == IF b = 0 THEN a ELSE GCD(b, a % b)

AggNumber(num, den) ==
  LET g == GCD(Abs(num), Abs(den))
      sg == IF den < 0 THEN -1 ELSE 1
  IN  <<(sg * num) \div g, (sg * den) \div g>>

Zero == <<0, 1>>
One == <<1, 1>>
QInt(i) == <<i, 1>>
QAdd(x, y) == AggNumber(x[1] * y[2] + y[1] * x[2], x[2] * y[2])
QSub(x, y) == AggNumber(x[1] * y[2] - y[1] * x[2], x[2] * y[2])
QMul(x, y) == AggNumber(x[1] * y[1], x[2] * y[2])
QDiv(x, y) == AggNumber(x[1] * y[2], x[2] * y[1])
QPos(x) == x[1] > 0
QLess(x, y) == x[1] * y[2] < y[1] * x[2]
QMax(x, y) == IF QLess(x, y) THEN y ELSE x
QMin(x, y) == IF QLess(y, x) THEN y ELSE x

RECURSIVE QPow(_, _)
QPow(x, m) == IF m = 0 THEN One ELSE QMul(x, QPow(x, m - 1))

\* the sum of f[x] over x in S, f a function to AggNumber
RECURSIVE QSum(_, _)
QSum(f, S) ==
  IF S = {} THEN Zero
  ELSE LET x == CHOOSE y \in S : TRUE
       IN  QAdd(f[x], QSum(f, S \ {x}))

(***************************************************************************)
(* Vectors are 0-based, as in the source: a function on 0..len-1.          *)
(***************************************************************************)
Vec(seq) == [i \in 0 .. Len(seq) - 1 |-> seq[i + 1]]
VLen(v) == Cardinality(DOMAIN v)
VRange(v) == {v[i] : i \in DOMAIN v}
VAppend(v, x) == [i \in 0 .. VLen(v) |-> IF i < VLen(v) THEN v[i] ELSE x]

\* std::vector<int> operator<: lexicographic, a proper prefix is smaller
VLess(a, b) ==
  \/ \E i \in (DOMAIN a) \cap (DOMAIN b) :
       /\ a[i] < b[i]
       /\ \A j \in 0 .. i - 1 : a[j] = b[j]
  \/ /\ VLen(a) < VLen(b)
     /\ \A j \in DOMAIN a : a[j] = b[j]

\* the elements of a finite set of vectors in ascending order
RECURSIVE VSorted(_)
VSorted(S) ==
  IF S = {} THEN Vec(<<>>)
  ELSE LET m == CHOOSE x \in S : \A y \in S \ {x} : VLess(y, x)
       IN  VAppend(VSorted(S \ {m}), m)

(***************************************************************************)
(* Projection functions (proj_func): the variant tag, the value on a       *)
(* multiset of cnt copies of one action node, and the composer of two      *)
(* contributions.                                                          *)
(***************************************************************************)
P_SUM == [tag |-> "SUM"]
P_EXIST == [tag |-> "EXIST"]

ProjApply(f, cnt) ==
  CASE f.tag = "SUM" -> cnt
    [] f.tag = "EXIST" -> IF cnt >= 1 THEN 1 ELSE 0

ProjCombine(f, a, b) ==
  CASE f.tag = "SUM" -> a + b
    [] f.tag = "EXIST" -> IF a >= 1 \/ b >= 1 THEN 1 ELSE 0

(***************************************************************************)
(* aggdistrib / aggpayoff (trie_map): a function from configuration keys   *)
(* to values.                                                              *)
(***************************************************************************)
reset == [k \in {} |-> Zero]

\* insert(make_pair(k, w)): a key already present keeps its value
insert(t, k, w) ==
  IF k \in DOMAIN t THEN t
  ELSE [x \in (DOMAIN t) \cup {k} |-> IF x = k THEN w ELSE t[x]]

\* faulty variant: the weight at k is replaced by w
PlusEqReplace(t, k, w) ==
  [x \in (DOMAIN t) \cup {k} |-> IF x = k THEN w ELSE t[x]]

\* t += make_pair(k, w): add w to the weight at k
PlusEq(t, k, w) ==
  [x \in (DOMAIN t) \cup {k} |->
     IF x = k THEN (IF k \in DOMAIN t THEN QAdd(t[k], w) ELSE w) ELSE t[x]]

Compose(projF, ka, kb) ==
  [j \in DOMAIN ka |-> ProjCombine(projF[j], ka[j], kb[j])]

\* dest.multiply(a, b, numNei, projF)
multiply(a, b, projF) ==
  LET pairs == (DOMAIN a) \X (DOMAIN b)
      keys == {Compose(projF, pr[1], pr[2]) : pr \in pairs}
  IN  [k \in keys |->
         LET hit == {pr \in pairs : Compose(projF, pr[1], pr[2]) = k}
         IN  QSum([pr \in hit |-> QMul(a[pr[1]], b[pr[2]])], hit)]

\* a.inner_prod(U): keys of a missing from U contribute nothing
inner_prod(a, U) ==
  LET hit == (DOMAIN a) \cap (DOMAIN U)
  IN  QSum([k \in hit |-> QMul(a[k], U[k])], hit)

\* a.inner_prod(kernel, numNei, projF, U): the last composition fused in
inner_prod_kernel(a, kernel, projF, U) ==
  LET hit == {k \in DOMAIN a : Compose(projF, k, kernel) \in DOMAIN U}
  IN  QSum([k \in hit |-> QMul(a[k], U[Compose(projF, k, kernel)])], hit)

\* a.power(p, dest, scratch, numNei, projF) by repeated squaring with one
\* scratch buffer; the result is [dest, scratch]
RECURSIVE power(_, _, _, _, _)
power(a, p, dest, scratch, projF) ==
  IF p = 1 THEN [dest |-> a, scratch |-> scratch]
  ELSE LET half == power(a, p \div 2, scratch, dest, projF)
           sq == multiply(half.dest, half.dest, projF)
       IN  IF p % 2 = 0
             THEN [dest |-> sq, scratch |-> half.dest]
             ELSE [dest |-> multiply(sq, a, projF), scratch |-> sq]

(***************************************************************************)
(* Construction: AGG::makeAGG and the functions it calls.  A game file is  *)
(* the record of its tokens: n, S, P, ASets, neighb, projTypes and, per    *)
(* action node, the payoff form (paytype) and its entries (payin).         *)
(***************************************************************************)
COMPLETE == 0
MAPPING == 1

\* std::sort of a vector of integers (duplicates kept)
SortInts(v) ==
  LET rank(i) == Cardinality({j \in DOMAIN v :
                                \/ v[j] < v[i]
                                \/ v[j] = v[i] /\ j < i})
  IN  [r \in DOMAIN v |-> v[CHOOSE i \in DOMAIN v : rank(i) = r]]

\* the ancestors of a function node, as the multiset dest: action node |-> count.
\* A node index below 0 is inserted like an action node and never looked up; a
\* neighbor index of S + P or more makes projTypes[...] a read past the end of
\* the vector, which is undefined (err "undefined").
RECURSIVE getAn(_, _, _, _, _, _)
RECURSIVE getAnNei(_, _, _, _, _, _, _)
RECURSIVE getAnNext(_, _, _, _, _, _, _)
\* a walk that reports a cycle at the node the walk started from
getAnAtRoot(dest, neighb, projTypes, S, Node, path) ==
  IF Node < S
    THEN [err |-> "none",
          an |-> IF Node < 0 THEN dest ELSE [dest EXCEPT ![Node] = @ + 1]]
  ELSE IF Node \in VRange(path)
    THEN [err |-> "cycle", at |-> path[0]]
  ELSE getAnNei(dest, neighb, projTypes, S, Node, VAppend(path, Node), 0)

\* a walk over the neighbors that compares no projection types
getAnNeiUnchecked(dest, neighb, projTypes, S, Node, path, i) ==
  IF i >= VLen(neighb[Node]) THEN [err |-> "none", an |-> dest]
  ELSE IF neighb[Node][i] >= S + VLen(projTypes)
    THEN [err |-> "undefined", at |-> Node]
  ELSE getAnNext(getAn(dest, neighb, projTypes, S, neighb[Node][i], path),
                 neighb, projTypes, S, Node, path, i)

\* faulty variant: an action node met again is not counted again
getAnOnce(dest, neighb, projTypes, S, Node, path) ==
  IF Node < S
    THEN [err |-> "none",
          an |-> IF Node < 0 THEN dest ELSE [dest EXCEPT ![Node] = 1]]
  ELSE IF Node \in VRange(path)
    THEN [err |-> "cycle", at |-> Node]
  ELSE getAnNei(dest, neighb, projTypes, S, Node, VAppend(path, Node), 0)

getAn(dest, neighb, projTypes, S, Node, path) ==
  IF Node < S
    THEN [err |-> "none",
          an |-> IF Node < 0 THEN dest ELSE [dest EXCEPT ![Node] = @ + 1]]
  ELSE IF Node \in VRange(path)
    THEN [err |-> "cycle", at |-> Node]
  ELSE getAnNei(dest, neighb, projTypes, S, Node, VAppend(path, Node), 0)

getAnNei(dest, neighb, projTypes, S, Node, path, i) ==
  IF i >= VLen(neighb[Node]) THEN [err |-> "none", an |-> dest]
  ELSE IF neighb[Node][i] >= S + VLen(projTypes)
    THEN [err |-> "undefined", at |-> Node]
  ELSE IF neighb[Node][i] >= S /\ projTypes[neighb[Node][i] - S] # projTypes[Node - S]
    THEN [err |-> "mismatch", at |-> Node, nei |-> neighb[Node][i]]
  ELSE getAnNext(getAn(dest, neighb, projTypes, S, neighb[Node][i], path),
                 neighb, projTypes, S, Node, path, i)

getAnNext(r, neighb, projTypes, S, Node, path, i) ==
  IF r.err # "none" THEN r
  ELSE getAnNei(r.an, neighb, projTypes, S, Node, path, i + 1)

\* the distribution holding the keys of the vectors ks, each with weight 1
RECURSIVE InsertAll(_, _, _)
InsertAll(t, ks, j) ==
  IF j >= VLen(ks) THEN t ELSE InsertAll(insert(t, ks[j], One), ks, j + 1)

\* proj[Node][i][j][k]: the contribution of player i's action j to neighbor k
projOf(an, N, S, AS, neighb, projTypes) ==
  [Node \in 0 .. S - 1 |-> [i \in 0 .. N - 1 |-> [j \in DOMAIN AS[i] |->
     [k \in DOMAIN neighb[Node] |->
        IF AS[i][j] = neighb[Node][k] THEN 1
        ELSE IF neighb[Node][k] >= S
          THEN ProjApply(projTypes[neighb[Node][k] - S],
                         an[neighb[Node][k] - S].an[AS[i][j]])
        ELSE 0]]]]

projSOf(proj, N, S) ==
  [Node \in 0 .. S - 1 |-> [i \in 0 .. N - 1 |-> InsertAll(reset, proj[Node][i], 0)]]

\* the indices the loops over the action nodes use past the end of a vector:
\* a neighbor of S + P or more (projTypes[...]), an action outside [0, S)
\* (projS[ASets[i][j]] in makeAGG)
outOfRange(S, AS, neighb, projTypes) ==
  \/ \E Node \in 0 .. S - 1 : \E k \in DOMAIN neighb[Node] :
       neighb[Node][k] >= S + VLen(projTypes)
  \/ \E i \in DOMAIN AS : \E j \in DOMAIN AS[i] : AS[i][j] < 0 \/ AS[i][j] >= S

setProjectionsFrom(an, bad, N, S, AS, neighb, projTypes) ==
  IF bad # {}
    THEN an[CHOOSE g \in bad : \A h \in bad : g <= h]
  ELSE IF outOfRange(S, AS, neighb, projTypes)
    THEN [err |-> "undefined"]
    ELSE [err |-> "none"] @@
         [proj |-> projOf(an, N, S, AS, neighb, projTypes)]

withProjS(sp, N, S) ==
  IF sp.err # "none" THEN sp ELSE sp @@ [projS |-> projSOf(sp.proj, N, S)]

anErrors(an) == {g \in DOMAIN an : an[g].err # "none"}

setProjectionsAn(an, N, S, AS, neighb, projTypes) ==
  withProjS(setProjectionsFrom(an, anErrors(an), N, S, AS, neighb, projTypes), N, S)

\* [err, proj, projS], or the first error of the ancestor walk
setProjections(N, S, P, AS, neighb, projTypes) ==
  setProjectionsAn([g \in 0 .. P - 1 |->
                      getAn([u \in 0 .. S - 1 |-> 0], neighb, projTypes, S, S + g,
                            Vec(<<>>))],
                   N, S, AS, neighb, projTypes)

\* the composers of an action node's neighbor positions
makeProjF(S, neighb, projTypes) ==
  [i \in 0 .. S - 1 |-> [j \in DOMAIN neighb[i] |->
     IF neighb[i][j] < S THEN P_SUM ELSE projTypes[neighb[i][j] - S]]]

\* Po: player i first, the others by ascending (size of projS[k], k)
initPorder(i, N, projS) ==
  LET others == (0 .. N - 1) \ {i}
      before(a, b) == \/ VLen(projS[a]) < VLen(projS[b])
                      \/ VLen(projS[a]) = VLen(projS[b]) /\ a < b
      rank(k) == Cardinality({h \in others : before(h, k)})
  IN  [pos \in 0 .. N - 1 |->
         IF pos = 0 THEN i ELSE CHOOSE k \in others : rank(k) = pos - 1]

\* Pr[0..n-1] after applying player i's action j and then the others' supports
RECURSIVE supportChain(_, _, _, _, _, _)
supportChain(Pr, k, n, projSnode, Po, projFnode) ==
  IF k >= n THEN Pr
  ELSE supportChain([Pr EXCEPT ![k] = multiply(Pr[k - 1], projSnode[Po[k]], projFnode)],
                    k + 1, n, projSnode, Po, projFnode)

\* a reading loop that lets a later entry replace the utility of an earlier one
RECURSIVE readMappingReplace(_, _, _, _)
readMappingReplace(entries, j, pay, numNei) ==
  IF j >= VLen(entries) THEN [err |-> "none", pay |-> pay]
  ELSE readMappingReplace(entries, j + 1,
                          [k \in (DOMAIN pay) \cup {entries[j].key} |->
                             IF k = entries[j].key THEN entries[j].u ELSE pay[k]],
                          numNei)

\* makeMAPPINGpayoff: entries is a vector of [key, u]; pay holds the required keys
RECURSIVE readMapping(_, _, _, _)
readMapping(entries, j, pay, numNei) ==
  IF j >= VLen(entries) THEN [err |-> "none", pay |-> pay]
  ELSE IF VLen(entries[j].key) # numNei
    THEN [err |-> "bracket expected"]
  ELSE IF entries[j].key \in DOMAIN pay
    THEN [err |-> "overwriting utility", key |-> entries[j].key]
  ELSE readMapping(entries, j + 1, insert(pay, entries[j].key, entries[j].u), numNei)

\* the check after the reading: every key of temp has been given a utility
checkMapping(r, temp) ==
  IF r.err # "none" THEN r
  ELSE IF (DOMAIN temp) \ (DOMAIN r.pay) # {}
    THEN [err |-> "not specified",
          key |-> CHOOSE k \in (DOMAIN temp) \ (DOMAIN r.pay) :
                    \A h \in (DOMAIN temp) \ (DOMAIN r.pay) : h = k \/ VLess(k, h)]
  ELSE r

makeMAPPINGpayoff(entries, pay, numNei) ==
  checkMapping(readMapping(entries, 0, reset, numNei), pay)

\* makeCOMPLETEpayoff: one value per required key, in key order
completeFrom(entries, pay, keys) ==
  IF VLen(entries) < VLen(keys) THEN [err |-> "not enough payoffs"]
  ELSE [err |-> "none",
        pay |-> [k \in DOMAIN pay |-> entries[CHOOSE j \in DOMAIN keys : keys[j] = k]]]

makeCOMPLETEpayoff(entries, pay) == completeFrom(entries, pay, VSorted(DOMAIN pay))

\* the player classes, from the pairs (action set, player) in sorted order:
\* [uniqueActionSets, playerClasses, player2Class, kSymStrategyOffset,
\* numKSymActions]
RECURSIVE classLoop(_, _, _)
RECURSIVE classLoopSplit(_, _, _)
\* faulty variant: every player opens a class, equal action sets or not
classLoopSplit(t, r, acc) ==
  IF r >= VLen(t) THEN acc
  ELSE classLoopSplit(t, r + 1,
         [uniqueActionSets |-> VAppend(acc.uniqueActionSets, t[r].first),
          playerClasses |-> VAppend(acc.playerClasses, Vec(<<t[r].second>>)),
          player2Class |-> [acc.player2Class EXCEPT
                              ![t[r].second] = VLen(acc.uniqueActionSets)],
          numKSymActions |-> acc.numKSymActions + VLen(t[r].first),
          kSymStrategyOffset |->
            VAppend(acc.kSymStrategyOffset, acc.numKSymActions + VLen(t[r].first))])

classLoop(t, r, acc) ==
  IF r >= VLen(t) THEN acc
  ELSE IF r > 0 /\ t[r].first = acc.uniqueActionSets[VLen(acc.uniqueActionSets) - 1]
    THEN classLoop(t, r + 1,
           [acc EXCEPT !.playerClasses[VLen(acc.uniqueActionSets) - 1] =
                         VAppend(@, t[r].second),
                       !.player2Class[t[r].second] = VLen(acc.uniqueActionSets) - 1])
    ELSE classLoop(t, r + 1,
           [uniqueActionSets |-> VAppend(acc.uniqueActionSets, t[r].first),
            playerClasses |-> VAppend(acc.playerClasses, Vec(<<t[r].second>>)),
            player2Class |-> [acc.player2Class EXCEPT
                                ![t[r].second] = VLen(acc.uniqueActionSets)],
            numKSymActions |-> acc.numKSymActions + VLen(t[r].first),
            kSymStrategyOffset |->
              VAppend(acc.kSymStrategyOffset, acc.numKSymActions + VLen(t[r].first))])

\* the pairs (action set, player) in the order of std::sort
sortedPairs(numPlayers, actionSets) ==
  LET players == 0 .. numPlayers - 1
      before(a, b) == \/ VLess(actionSets[a], actionSets[b])
                      \/ actionSets[a] = actionSets[b] /\ a < b
      rank(i) == Cardinality({h \in players : before(h, i)})
  IN  [r \in players |->
         [first |-> actionSets[CHOOSE h \in players : rank(h) = r],
          second |-> CHOOSE h \in players : rank(h) = r]]

RECURSIVE offsetOf(_, _)
offsetOf(actionSets, i) ==
  IF i = 0 THEN 0 ELSE offsetOf(actionSets, i - 1) + VLen(actionSets[i - 1])

\* the object the constructor leaves, cl being the player classes
AGGobject(numPlayers, numANodes, numPNodes, actionSets, neighb, projTypes, projS, proj, projF, Po, P, payoffs, cl) ==
  [numPlayers |-> numPlayers,
   numActionNodes |-> numANodes,
   numPNodes |-> numPNodes,
   actions |-> [i \in 0 .. numPlayers - 1 |-> VLen(actionSets[i])],
   strategyOffset |-> [i \in 0 .. numPlayers |-> offsetOf(actionSets, i)],
   totalActions |-> offsetOf(actionSets, numPlayers),
   actionSets |-> actionSets,
   neighbors |-> neighb,
   projectionTypes |-> projTypes,
   payoffs |-> payoffs,
   projection |-> proj,
   projectedStrat |-> projS,
   projFunctions |-> projF,
   Porder |-> Po,
   Pr |-> P,
   isPure |-> [i \in 0 .. numANodes - 1 |->
                 \A k \in DOMAIN neighb[i] : neighb[i][k] < numANodes],
   node2Action |-> [i \in 0 .. numANodes - 1 |-> [j \in 0 .. numPlayers - 1 |->
                      IF \E a \in DOMAIN actionSets[j] : actionSets[j][a] = i
                        THEN CHOOSE a \in DOMAIN actionSets[j] :
                               /\ actionSets[j][a] = i
                               /\ \A b \in DOMAIN actionSets[j] :
                                    actionSets[j][b] = i => b <= a
                        ELSE -1]],
   uniqueActionSets |-> cl.uniqueActionSets,
   playerClasses |-> cl.playerClasses,
   player2Class |-> cl.player2Class,
   numKSymActions |-> cl.numKSymActions,
   kSymStrategyOffset |-> cl.kSymStrategyOffset]

notAscending(numPlayers, actionSets) ==
  {i \in 0 .. numPlayers - 1 : SortInts(actionSets[i]) # actionSets[i]}

\* AGG::AGG: the game object, or the error of an action set out of order
AGG(numPlayers, numANodes, numPNodes, actionSets, neighb, projTypes, projS, proj, projF, Po, P, payoffs) ==
  IF notAscending(numPlayers, actionSets) # {}
    THEN [err |-> "not ascending",
          at |-> CHOOSE i \in notAscending(numPlayers, actionSets) :
                   \A h \in notAscending(numPlayers, actionSets) : i <= h]
    ELSE [err |-> "none",
          agg |-> AGGobject(numPlayers, numANodes, numPNodes, actionSets, neighb,
                            projTypes, projS, proj, projF, Po, P, payoffs,
                            classLoop(sortedPairs(numPlayers, actionSets), 0,
                                      [uniqueActionSets |-> Vec(<<>>),
                                       playerClasses |-> Vec(<<>>),
                                       player2Class |-> [i \in 0 .. numPlayers - 1 |-> 0],
                                       numKSymActions |-> 0,
                                       kSymStrategyOffset |-> Vec(<<0>>)]))]

\* one payoff table read in the form the file announces
readPayoff(gf, i, pay) ==
  CASE gf.paytype[i] = COMPLETE -> makeCOMPLETEpayoff(gf.payin[i], pay)
    [] gf.paytype[i] = MAPPING -> makeMAPPINGpayoff(gf.payin[i], pay, VLen(gf.neighb[i]))
    [] OTHER -> [err |-> "Unknown payoff type"]

\* the payoff tables read in node order; the first error ends the reading
RECURSIVE readPayoffs(_, _, _)
RECURSIVE readPayoffsNext(_, _, _, _)
readPayoffs(gf, i, pays) ==
  IF i >= gf.S THEN [err |-> "none", pays |-> pays]
  ELSE readPayoffsNext(gf, i, pays, readPayoff(gf, i, pays[i]))

readPayoffsNext(gf, i, pays, r) ==
  IF r.err # "none" THEN r @@ [at |-> i]
  ELSE readPayoffs(gf, i + 1, [pays EXCEPT ![i] = r.pay])

PorderOf(gf, projS) ==
  [i \in 0 .. gf.n - 1 |-> [j \in DOMAIN gf.ASets[i] |->
     initPorder(i, gf.n, projS[gf.ASets[i][j]])]]

\* Pr after the pass of makeAGG over player i's action j
chain(gf, sp, projF, Po, i, j) ==
  supportChain([k \in 0 .. gf.n - 1 |->
                  IF k = 0 THEN insert(reset, sp.proj[gf.ASets[i][j]][i][j], One)
                  ELSE reset],
               1, gf.n, sp.projS[gf.ASets[i][j]], Po[i][j], projF[gf.ASets[i][j]])

\* the players whose sorted action set no earlier player has
firsts(gf) ==
  {i \in 0 .. gf.n - 1 :
     \A h \in 0 .. i - 1 : SortInts(gf.ASets[h]) # SortInts(gf.ASets[i])}

\* the configurations each node's table must hold
accept(gf, sp, projF, Po) ==
  [v \in 0 .. gf.S - 1 |->
     UNION {UNION {IF gf.ASets[i][j] = v
                     THEN DOMAIN chain(gf, sp, projF, Po, i, j)[gf.n - 1] ELSE {} :
                   j \in DOMAIN gf.ASets[i]} : i \in firsts(gf)}]

lastFirst(gf) == CHOOSE i \in firsts(gf) : \A h \in firsts(gf) : h <= i

makeAGGpays(gf, sp, projF, Po, rd) ==
  IF rd.err # "none" THEN rd
  ELSE AGG(gf.n, gf.S, gf.P, gf.ASets, gf.neighb, gf.projTypes, sp.projS, sp.proj,
           projF, Po,
           chain(gf, sp, projF, Po, lastFirst(gf), VLen(gf.ASets[lastFirst(gf)]) - 1),
           rd.pays)

makeAGGkeys(gf, sp, projF, Po, keys) ==
  makeAGGpays(gf, sp, projF, Po,
              readPayoffs(gf, 0, [v \in 0 .. gf.S - 1 |-> [k \in keys[v] |-> One]]))

makeAGGorder(gf, sp, projF, Po) ==
  makeAGGkeys(gf, sp, projF, Po, accept(gf, sp, projF, Po))

makeAGGproj(gf, sp) ==
  IF sp.err # "none" THEN sp
  ELSE makeAGGorder(gf, sp, makeProjF(gf.S, gf.neighb, gf.projTypes),
                    PorderOf(gf, sp.projS))

makeAGG(gf) ==
  makeAGGproj(gf, setProjections(gf.n, gf.S, gf.P, gf.ASets, gf.neighb, gf.projTypes))

\* the acceptance sets makeAGG computes for the file gf
acceptFrom(gf, sp) ==
  accept(gf, sp, makeProjF(gf.S, gf.neighb, gf.projTypes), PorderOf(gf, sp.projS))

acceptOf(gf) ==
  acceptFrom(gf, setProjections(gf.n, gf.S, gf.P, gf.ASets, gf.neighb, gf.projTypes))

\* the payoff tables handed over in memory, stored as they are
tablesOf(gf) ==
  [v \in 0 .. gf.S - 1 |->
     [k \in {gf.payin[v][j].key : j \in DOMAIN gf.payin[v]} |->
        gf.payin[v][CHOOSE j \in DOMAIN gf.payin[v] : gf.payin[v][j].key = k].u]]

makeFromArraysProj(gf, sp) ==
  IF sp.err # "none" THEN sp
  ELSE AGG(gf.n, gf.S, gf.P, gf.ASets, gf.neighb, gf.projTypes, sp.projS, sp.proj,
           makeProjF(gf.S, gf.neighb, gf.projTypes), PorderOf(gf, sp.projS),
           [k \in 0 .. gf.n - 1 |-> reset], tablesOf(gf))

\* construction from in-memory arrays: the caller hands over the tables, the
\* payoff tables among them, and the constructor stores them as they are
makeFromArrays(gf) ==
  makeFromArraysProj(gf, setProjections(gf.n, gf.S, gf.P, gf.ASets, gf.neighb,
                                        gf.projTypes))

(***************************************************************************)
(* The payoff oracle.  Each operation takes the game object g and returns  *)
(* the object it leaves behind with its result: [g, res], res being        *)
(* [ok |-> TRUE, val] or [ok |-> FALSE, err, ...] for a thrown error.      *)
(***************************************************************************)
Val(v) == [ok |-> TRUE, val |-> v]

firstAction(g, i) == g.strategyOffset[i]

\* doProjection(Node, i, s): s points at player i's first probability
RECURSIVE projLoop(_, _, _, _, _, _)
projLoop(g, Node, i, s, off, j) ==
  IF j >= g.actions[i] THEN g
  ELSE projLoop(IF QPos(s[off + j])
                  THEN [g EXCEPT !.projectedStrat[Node][i] =
                          PlusEq(@, g.projection[Node][i][j], s[off + j])]
                  ELSE g,
                Node, i, s, off, j + 1)

\* faulty variant: projectedStrat[Node][i] is not reset before the additions
doProjectionPlayerKeep(g, Node, i, s, off) == projLoop(g, Node, i, s, off, 0)

doProjectionPlayer(g, Node, i, s, off) ==
  projLoop([g EXCEPT !.projectedStrat[Node][i] = reset], Node, i, s, off, 0)

\* doProjection(Node, s): every player's segment of s
RECURSIVE doProjectionFrom(_, _, _, _)
doProjectionFrom(g, Node, s, i) ==
  IF i >= g.numPlayers THEN g
  ELSE doProjectionFrom(doProjectionPlayer(g, Node, i, s, firstAction(g, i)),
                        Node, s, i + 1)

\* faulty variant: only player 0 is projected, the projected strategies of the
\* other players stay as the last call left them
doProjectionFirst(g, Node, s) == doProjectionPlayer(g, Node, 0, s, firstAction(g, 0))

doProjection(g, Node, s) == doProjectionFrom(g, Node, s, 0)

\* computeP: the induced distribution over the configurations of the node
RECURSIVE computePLoop(_, _, _, _, _, _)
RECURSIVE computePLoopUnforced(_, _, _, _, _, _)
\* faulty variant: the forced action of player2 is not applied, its projected
\* strategy is multiplied in instead
computePLoopUnforced(g, player, act, player2, act2, k) ==
  IF k >= g.numPlayers THEN g
  ELSE computePLoopUnforced(
         [g EXCEPT !.Pr[k] =
            multiply(g.Pr[k - 1],
                     g.projectedStrat[g.actionSets[player][act]][g.Porder[player][act][k]],
                     g.projFunctions[g.actionSets[player][act]])],
         player, act, player2, act2, k + 1)

computePLoop(g, player, act, player2, act2, k) ==
  IF k >= g.numPlayers THEN g
  ELSE computePLoop(
         [g EXCEPT !.Pr[k] =
            IF g.Porder[player][act][k] = player2 /\ act2 = -1
              THEN g.Pr[k - 1]
              ELSE multiply(g.Pr[k - 1],
                            IF g.Porder[player][act][k] = player2
                              THEN insert(reset,
                                     g.projection[g.actionSets[player][act]][player2][act2],
                                     One)
                              ELSE g.projectedStrat[g.actionSets[player][act]]
                                                   [g.Porder[player][act][k]],
                            g.projFunctions[g.actionSets[player][act]])],
         player, act, player2, act2, k + 1)

\* faulty variant: Pr[0] built from the projection of action 0 whatever act is
computePFirstAction(g, player, act, player2, act2) ==
  computePLoop([g EXCEPT !.Pr[0] =
                  insert(reset, g.projection[g.actionSets[player][act]][player][0], One)],
               player, act, player2, act2, 1)

computeP(g, player, act, player2, act2) ==
  computePLoop([g EXCEPT !.Pr[0] =
                  insert(reset, g.projection[g.actionSets[player][act]][player][act], One)],
               player, act, player2, act2, 1)

\* the configuration of Node under the pure profile s, players 0..i composed
RECURSIVE pureprofile(_, _, _, _)
pureprofile(g, Node, s, i) ==
  IF i = 0 THEN g.projection[Node][0][s[0]]
  ELSE Compose(g.projFunctions[Node], pureprofile(g, Node, s, i - 1),
               g.projection[Node][i][s[i]])

\* faulty variant: a configuration that is not a key yields the payoff 0
findPayoffDefault(g, Node, c) ==
  [g |-> g,
   res |-> IF c \notin DOMAIN g.payoffs[Node] THEN Val(Zero)
           ELSE Val(g.payoffs[Node][c])]

\* payoffs[Node].find(c), and the error thrown when c is not a key
findPayoff(g, Node, c) ==
  [g |-> g,
   res |-> IF c \notin DOMAIN g.payoffs[Node]
             THEN [ok |-> FALSE, err |-> "unable to find configuration",
                   config |-> c, node |-> Node]
             ELSE Val(g.payoffs[Node][c])]

\* faulty variant: the configuration is folded in place, in the projection table
getPurePayoffInPlace(g, player, s) ==
  findPayoff([g EXCEPT !.projection[g.actionSets[player][s[player]]][0][s[0]] =
                pureprofile(g, g.actionSets[player][s[player]], s, g.numPlayers - 1)],
             g.actionSets[player][s[player]],
             pureprofile(g, g.actionSets[player][s[player]], s, g.numPlayers - 1))

getPurePayoff(g, player, s) ==
  findPayoff(g, g.actionSets[player][s[player]],
             pureprofile(g, g.actionSets[player][s[player]], s, g.numPlayers - 1))

\* Pr[numPlayers-1].inner_prod(payoffs[Node])
expectation(g, Node) ==
  [g |-> g, res |-> Val(inner_prod(g.Pr[g.numPlayers - 1], g.payoffs[Node]))]

\* faulty variant: the expected payoff of the action weighted by the
\* probability the player itself gives the action
getVOwn(g, player, act, s) ==
  [g |-> computeP(doProjection(g, g.actionSets[player][act], s), player, act, -1, -1),
   res |-> Val(QMul(s[act + firstAction(g, player)],
                    expectation(computeP(doProjection(g, g.actionSets[player][act], s),
                                         player, act, -1, -1),
                                g.actionSets[player][act]).res.val))]

getV(g, player, act, s) ==
  expectation(computeP(doProjection(g, g.actionSets[player][act], s),
                       player, act, -1, -1),
              g.actionSets[player][act])

RECURSIVE mixedLoop(_, _, _, _, _)
RECURSIVE mixedAdd(_, _, _, _, _)
mixedLoop(g, player, s, act, result) ==
  IF act >= g.actions[player] THEN [g |-> g, res |-> Val(result)]
  ELSE IF QPos(s[act + firstAction(g, player)])
    THEN mixedAdd(getV(g, player, act, s), player, s, act, result)
    ELSE mixedLoop(g, player, s, act + 1, result)

\* faulty variant: the payoff of the action is added without its probability
mixedAddUnweighted(v, player, s, act, result) ==
  mixedLoop(v.g, player, s, act + 1, QAdd(result, v.res.val))

\* result += s[act + firstAction(player)] * getV(player, act, s), v the call made
mixedAdd(v, player, s, act, result) ==
  mixedLoop(v.g, player, s, act + 1,
            QAdd(result, QMul(s[act + firstAction(v.g, player)], v.res.val)))

getMixedPayoff(g, player, s) == mixedLoop(g, player, s, 0, Zero)

RECURSIVE vectorLoop(_, _, _, _, _)
RECURSIVE vectorSet(_, _, _, _, _)
vectorLoop(g, player, s, act, dest) ==
  IF act >= g.actions[player] THEN [g |-> g, res |-> Val(dest)]
  ELSE vectorSet(getV(g, player, act, s), player, s, act, dest)

\* dest[act] = getV(player, act, s), v the call made
vectorSet(v, player, s, act, dest) ==
  vectorLoop(v.g, player, s, act + 1, [dest EXCEPT ![act] = v.res.val])

\* dest comes from the caller, sized to the player's actions
getPayoffVector(g, player, s) ==
  vectorLoop(g, player, s, 0, [a \in 0 .. g.actions[player] - 1 |-> Zero])

getJ(g, player1, act1, player2, act2, s) ==
  expectation(computeP(doProjection(g, g.actionSets[player1][act1], s),
                       player1, act1, player2, act2),
              g.actionSets[player1][act1])

(***************************************************************************)
(* GrayComposition(n, k): the weak compositions of n into k parts, from    *)
(* [n,0,...,0] on, each step moving one unit from part d to part i.        *)
(***************************************************************************)
VReverse(v) == [r \in DOMAIN v |-> v[VLen(v) - 1 - r]]
VConcat(a, b) ==
  [r \in 0 .. VLen(a) + VLen(b) - 1 |-> IF r < VLen(a) THEN a[r] ELSE b[r - VLen(a)]]

\* the whole enumeration: the blocks of equal last part c = 0..n, the block of
\* an odd c run backwards
RECURSIVE GrayList(_, _)
RECURSIVE GrayBlocks(_, _, _)
RECURSIVE GrayBlock(_, _, _, _)
GrayList(n, k) ==
  IF k = 1 THEN Vec(<< Vec(<<n>>) >>)
  ELSE GrayBlocks(n, k, 0)

GrayBlocks(n, k, c) ==
  IF c > n THEN Vec(<<>>)
  ELSE GrayBlock(n, k, c, GrayList(n - c, k - 1))

GrayBlock(n, k, c, sub) ==
  VConcat([r \in DOMAIN sub |->
             VAppend(IF c % 2 = 0 THEN sub[r] ELSE VReverse(sub)[r], c)],
          GrayBlocks(n, k, c + 1))

\* after the r-th incr(): the part decremented and the part incremented
GrayD(list, r) == CHOOSE x \in DOMAIN list[r] : list[r][x] < list[r - 1][x]
GrayI(list, r) == CHOOSE x \in DOMAIN list[r] : list[r][x] > list[r - 1][x]

(***************************************************************************)
(* Symmetric and k-symmetric payoff.  A read through the end() iterator of *)
(* a payoff table (a configuration that is not a key) or past the end of   *)
(* a vector is undefined; the value it yields is the parameter junk, and   *)
(* ub tells that it happened.                                              *)
(***************************************************************************)
isSymmetric(g) == VLen(g.playerClasses) = 1

\* the last position of x in the vector v, -1 if there is none
lastIndex(v, x) ==
  IF \E i \in DOMAIN v : v[i] = x
    THEN CHOOSE i \in DOMAIN v : v[i] = x /\ \A h \in DOMAIN v : v[h] = x => h <= i
    ELSE -1

\* config c of one composition: comp[j] at position support[j], plus add
configOf(comp, support, numNei, add) ==
  [x \in 0 .. numNei - 1 |->
     (IF \E j \in DOMAIN support : support[j] = x
        THEN comp[lastIndex(support, x)]
        ELSE 0) + add[x]]

\* prob *= (comp[d] + 1) * i_prob / comp[i] / d_prob
probUpdate(prob, comp, cat, gi, gd) ==
  QMul(prob, QDiv(QDiv(QMul(QInt(comp[gd] + 1), cat[gi]), QInt(comp[gi])), cat[gd]))

\* the enumeration loop of the pure-node path: the compositions list[r..],
\* prob being the probability of list[r]; cat[j] is the probability of support
\* entry j, add the counts added to every configuration.  Yields the vector of
\* [c, prob] visited.
RECURSIVE grayLoop(_, _, _, _, _, _, _)
grayLoop(list, r, prob, support, cat, numNei, add) ==
  IF r + 1 >= VLen(list)
    THEN Vec(<< [c |-> configOf(list[r], support, numNei, add), prob |-> prob] >>)
    ELSE VConcat(Vec(<< [c |-> configOf(list[r], support, numNei, add),
                         prob |-> prob] >>),
                 grayLoop(list, r + 1,
                          probUpdate(prob, list[r + 1], cat, GrayI(list, r + 1),
                                     GrayD(list, r + 1)),
                          support, cat, numNei, add))

\* the positions hits in ascending order, then -1 if null
supportOf(hits, null) ==
  LET rank(i) == Cardinality({h \in hits : h < i})
      base == [r \in 0 .. Cardinality(hits) - 1 |-> CHOOSE i \in hits : rank(i) = r]
  IN  IF null THEN VAppend(base, -1) ELSE base

\* 1 minus the probabilities probs of the support
nullProb(probs) == QSub(One, QSum(probs, DOMAIN probs))

\* the non-pure path of getSymMixedPayoff(node, s): g the object after the
\* projection, pw the power computed into Pr[numPlayers-1]
symPower(g, node, pw, junk) ==
  IF node \in DOMAIN g.projection[node][0]
    THEN [g |-> [g EXCEPT !.Pr[g.numPlayers - 1] = pw.dest,
                          !.Pr[g.numPlayers - 2] = pw.scratch],
          ub |-> FALSE,
          res |-> Val(inner_prod_kernel(pw.dest, g.projection[node][0][node],
                                        g.projFunctions[node], g.payoffs[node]))]
    ELSE [g |-> [g EXCEPT !.Pr[g.numPlayers - 1] = pw.dest,
                          !.Pr[g.numPlayers - 2] = pw.scratch],
          ub |-> TRUE, res |-> Val(junk)]

symProjected(g, node, junk) ==
  symPower(g, node,
           power(g.projectedStrat[node][0], g.numPlayers - 1, g.Pr[g.numPlayers - 1],
                 g.Pr[g.numPlayers - 2], g.projFunctions[node]),
           junk)

\* V, the sum over the configurations visited
symVisits(g, node, visits, junk) ==
  [g |-> g,
   ub |-> \E r \in DOMAIN visits : visits[r].c \notin DOMAIN g.payoffs[node],
   res |-> Val(QSum([r \in DOMAIN visits |->
                       QMul(visits[r].prob,
                            IF visits[r].c \in DOMAIN g.payoffs[node]
                              THEN g.payoffs[node][visits[r].c]
                              ELSE junk)],
                    DOMAIN visits))]

symGray(g, node, s, support, null_prob, junk) ==
  IF VLen(support) = 0
    THEN [g |-> g, ub |-> FALSE, res |-> [ok |-> FALSE, err |-> "out_of_range"]]
    ELSE symVisits(g, node,
           grayLoop(GrayList(g.numPlayers - 1, VLen(support)), 0,
                    QPow(IF support[0] >= 0 THEN s[g.neighbors[node][support[0]]]
                         ELSE null_prob,
                         g.numPlayers - 1),
                    support,
                    [j \in DOMAIN support |->
                       IF support[j] # -1 THEN s[g.neighbors[node][support[j]]]
                       ELSE null_prob],
                    VLen(g.neighbors[node]),
                    [x \in DOMAIN g.neighbors[node] |->
                       IF x = lastIndex(g.neighbors[node], node) THEN 1 ELSE 0]),
           junk)

symNull(g, node, s, hits, null_prob, junk) ==
  symGray(g, node, s,
          supportOf(hits, VLen(g.neighbors[node]) < g.numActionNodes /\ QPos(null_prob)),
          null_prob, junk)

symSupport(g, node, s, hits, junk) ==
  symNull(g, node, s, hits, nullProb([i \in hits |-> s[g.neighbors[node][i]]]), junk)

\* getSymMixedPayoff(node, s)
getSymMixedPayoffNode(g, node, s, junk) ==
  IF ~g.isPure[node]
    THEN symProjected(doProjectionPlayer(g, node, 0, s, 0), node, junk)
    ELSE symSupport(g, node, s,
                    {i \in DOMAIN g.neighbors[node] : QPos(s[g.neighbors[node][i]])},
                    junk)

RECURSIVE symLoop(_, _, _, _, _, _)
RECURSIVE symAdd(_, _, _, _, _, _)
symLoop(g, s, node, result, ub, junk) ==
  IF node >= g.numActionNodes THEN [g |-> g, ub |-> ub, res |-> Val(result)]
  ELSE IF QPos(s[node])
    THEN symAdd(getSymMixedPayoffNode(g, node, s, junk), s, node, result, ub, junk)
    ELSE symLoop(g, s, node + 1, result, ub, junk)

\* result += s[node] * getSymMixedPayoff(node, s), v the call made
symAdd(v, s, node, result, ub, junk) ==
  IF ~v.res.ok THEN [v EXCEPT !.ub = @ \/ ub]
  ELSE symLoop(v.g, s, node + 1, QAdd(result, QMul(s[node], v.res.val)),
               ub \/ v.ub, junk)

NotSymmetric == [ok |-> FALSE, err |-> "the game is not symmetric"]

getSymMixedPayoff(g, s, junk) ==
  IF ~isSymmetric(g) THEN [g |-> g, ub |-> FALSE, res |-> NotSymmetric]
  ELSE symLoop(g, s, 0, Zero, FALSE, junk)

RECURSIVE symVectorLoop(_, _, _, _, _, _)
RECURSIVE symVectorSet(_, _, _, _, _, _)
symVectorLoop(g, s, act, dest, ub, junk) ==
  IF act >= g.numActionNodes THEN [g |-> g, ub |-> ub, res |-> Val(dest)]
  ELSE symVectorSet(getSymMixedPayoffNode(g, act, s, junk), s, act, dest, ub, junk)

\* dest[act] = getSymMixedPayoff(act, s), v the call made
symVectorSet(v, s, act, dest, ub, junk) ==
  IF ~v.res.ok THEN [v EXCEPT !.ub = @ \/ ub]
  ELSE symVectorLoop(v.g, s, act + 1, [dest EXCEPT ![act] = v.res.val],
                     ub \/ v.ub, junk)

getSymPayoffVector(g, s, junk) ==
  IF ~isSymmetric(g) THEN [g |-> g, ub |-> FALSE, res |-> NotSymmetric]
  ELSE symVectorLoop(g, s, 0, [a \in 0 .. g.numActionNodes - 1 |-> Zero], FALSE, junk)

\* dest.multiply(temp) for the singleton temp of key, or dest = temp if dest
\* is empty; dest itself when the class is not the one concerned
timesPure(concerned, dest, key, projF) ==
  IF ~concerned THEN dest
  ELSE IF VLen(dest) > 0 THEN multiply(dest, insert(reset, key, One), projF)
  ELSE insert(reset, key, One)

\* the non-pure path of getSymConfigProb after the power: [g, dest]
confPower(g, node, player, pw, own, act, second, act2) ==
  [g |-> [g EXCEPT !.Pr[0] = pw.scratch],
   dest |-> timesPure(second,
                      timesPure(own, pw.dest, g.projection[node][player][act],
                                g.projFunctions[node]),
                      IF second THEN g.projection[node][player][act2]
                      ELSE g.projection[node][player][act],
                      g.projFunctions[node])]

confProjected(g, node, player, numPl, own, act, second, act2) ==
  confPower(g, node, player,
            IF numPl > 0
              THEN power(g.projectedStrat[node][player], numPl, reset, g.Pr[0],
                         g.projFunctions[node])
              ELSE [dest |-> reset, scratch |-> g.Pr[0]],
            own, act, second, act2)

\* dest.insert of every configuration visited
RECURSIVE insertVisits(_, _, _)
insertVisits(t, visits, r) ==
  IF r >= VLen(visits) THEN t
  ELSE insertVisits(insert(t, visits[r].c, visits[r].prob), visits, r + 1)

confGray(g, node, p, s, numPl, support, null_prob, add) ==
  [g |-> g,
   dest |-> insertVisits(reset,
              grayLoop(GrayList(numPl, VLen(support)), 0,
                       QPow(IF support[0] >= 0
                              THEN s[g.node2Action[g.neighbors[node][support[0]]][p]]
                              ELSE null_prob,
                            numPl),
                       support,
                       [j \in DOMAIN support |->
                          IF support[j] # -1
                            THEN s[g.node2Action[g.neighbors[node][support[j]]][p]]
                            ELSE null_prob],
                       VLen(g.neighbors[node]), add),
              0)]

confNull(g, node, p, s, numPl, hits, null_prob, add) ==
  confGray(g, node, p, s, numPl, supportOf(hits, QPos(null_prob)), null_prob, add)

confSupport(g, node, p, s, numPl, hits, add) ==
  confNull(g, node, p, s, numPl, hits,
           nullProb([i \in hits |-> s[g.node2Action[g.neighbors[node][i]][p]]]), add)

\* the pure path of getSymConfigProb; own and second tell whether plClass is
\* ownPlClass and whether it is plClass2, ind2 is the position of (plClass2, act2)
confPure(g, node, p, s, numPl, own, second, ind2) ==
  confSupport(g, node, p, s, numPl,
              {i \in DOMAIN g.neighbors[node] :
                 /\ g.node2Action[g.neighbors[node][i]][p] >= 0
                 /\ QPos(s[g.node2Action[g.neighbors[node][i]][p]])},
              [x \in DOMAIN g.neighbors[node] |->
                 (IF own /\ x = lastIndex(g.neighbors[node], node) THEN 1 ELSE 0)
                 + (IF second /\ x = ind2 THEN 1 ELSE 0)])

confNode(g, node, player, s, numPl, own, act, second, act2, ind2) ==
  IF ~g.isPure[node]
    THEN confProjected(IF numPl > 0 THEN doProjectionPlayer(g, node, player, s, 0)
                       ELSE [g EXCEPT !.projectedStrat[node][player] = reset],
                       node, player, numPl, own, act, second, act2)
    ELSE confPure(g, node, player, s, numPl, own, second, ind2)

\* faulty variant: the player of the action is not taken out of its class
getSymConfigProbAll(g, plClass, s, ownPlClass, act, plClass2, act2) ==
  confNode(g, g.uniqueActionSets[ownPlClass][act], g.playerClasses[plClass][0], s,
           VLen(g.playerClasses[plClass]) - (IF plClass = plClass2 THEN 1 ELSE 0),
           plClass = ownPlClass, act, plClass = plClass2, act2,
           IF plClass2 >= 0
             THEN lastIndex(g.neighbors[g.uniqueActionSets[ownPlClass][act]],
                            g.uniqueActionSets[plClass2][act2])
             ELSE -1)

\* getSymConfigProb: the distribution over the configurations of the node of
\* (ownPlClass, act) induced by the players of plClass playing s; [g, dest]
getSymConfigProb(g, plClass, s, ownPlClass, act, plClass2, act2) ==
  confNode(g, g.uniqueActionSets[ownPlClass][act], g.playerClasses[plClass][0], s,
           VLen(g.playerClasses[plClass])
             - (IF plClass = ownPlClass THEN 1 ELSE 0)
             - (IF plClass = plClass2 THEN 1 ELSE 0),
           plClass = ownPlClass, act, plClass = plClass2, act2,
           IF plClass2 >= 0
             THEN lastIndex(g.neighbors[g.uniqueActionSets[ownPlClass][act]],
                            g.uniqueActionSets[plClass2][act2])
             ELSE -1)

getNumKSymActions(g, pc) == VLen(g.uniqueActionSets[pc])
firstKSymAction(g, pc) == g.kSymStrategyOffset[pc]

\* the strategy of class pc cut out of the flat class-wise profile s
classSlice(g, s, pc) ==
  [a \in 0 .. getNumKSymActions(g, pc) - 1 |-> s[a + firstKSymAction(g, pc)]]

\* getKSymMixedPayoff for an action of a class runs in steps.  fr is the
\* frame of the call: where it stands (pc), its arguments (pClass1, act1,
\* pClass2, act2, the strategies ss one per class), its loop counter and its
\* result.  d and temp are the function's static buffers.
kSymStart(ss, pClass1, act1, pClass2, act2) ==
  [pc |-> "enter", ss |-> ss, pClass1 |-> pClass1, act1 |-> act1,
   pClass2 |-> pClass2, act2 |-> act2, k |-> 0, res |-> Val(Zero)]

\* getSymConfigProb(k, ...) has filled d (k = 0) or temp (k > 0): c is its result
kSymConf(d, temp, fr, numPC, c) ==
  IF fr.k = 0
    THEN [g |-> c.g, d |-> c.dest, temp |-> temp,
          fr |-> [fr EXCEPT !.pc = IF numPC > 1 THEN "class" ELSE "return", !.k = 1]]
    ELSE [g |-> c.g, d |-> d, temp |-> c.dest, fr |-> [fr EXCEPT !.pc = "multiply"]]

kSymStep(g, d, temp, fr) ==
  CASE fr.pc = "enter" ->
         IF /\ fr.pClass2 >= 0
            /\ fr.pClass1 = fr.pClass2
            /\ VLen(g.playerClasses[fr.pClass1]) <= 1
           THEN [g |-> g, d |-> d, temp |-> temp,
                 fr |-> [fr EXCEPT !.pc = "done", !.res = Val(Zero)]]
           ELSE [g |-> g, d |-> reset, temp |-> reset,
                 fr |-> [fr EXCEPT !.pc = "class"]]
    [] fr.pc = "class" ->
         kSymConf(d, temp, fr, VLen(g.playerClasses),
                  getSymConfigProb(g, fr.k, fr.ss[fr.k], fr.pClass1, fr.act1,
                                   fr.pClass2, fr.act2))
    [] fr.pc = "multiply" ->
         [g |-> g,
          d |-> multiply(d, temp,
                         g.projFunctions[g.uniqueActionSets[fr.pClass1][fr.act1]]),
          temp |-> temp,
          fr |-> [fr EXCEPT !.pc = IF fr.k + 1 < VLen(g.playerClasses)
                                     THEN "class" ELSE "return",
                            !.k = fr.k + 1]]
    [] fr.pc = "return" ->
         [g |-> g, d |-> d, temp |-> temp,
          fr |-> [fr EXCEPT !.pc = "done",
                            !.res = Val(inner_prod(d,
                                      g.payoffs[g.uniqueActionSets[fr.pClass1]
                                                                  [fr.act1]]))]]

\* the call run from its frame to its return with nothing in between
RECURSIVE kSymRun(_, _, _, _)
RECURSIVE kSymRunOn(_)
kSymRun(g, d, temp, fr) ==
  IF fr.pc = "done" THEN [g |-> g, d |-> d, temp |-> temp, res |-> fr.res]
  ELSE kSymRunOn(kSymStep(g, d, temp, fr))

kSymRunOn(n) == kSymRun(n.g, n.d, n.temp, n.fr)

\* getKSymMixedPayoff(s, pClass1, act1, pClass2, act2), s the flat profile
getKSymMixedPayoffAct(g, d, temp, s, pClass1, act1, pClass2, act2) ==
  kSymRun(g, d, temp,
          kSymStart([pc \in DOMAIN g.playerClasses |-> classSlice(g, s, pc)],
                    pClass1, act1, pClass2, act2))

\* getKSymMixedPayoff(playerClass, act, s), s one strategy per class
getKSymMixedPayoffActV(g, d, temp, playerClass, act, s) ==
  kSymRun(g, d, temp, kSymStart(s, playerClass, act, -1, -1))

\* getKSymMixedPayoff(playerClass, s), s one strategy per class
RECURSIVE kSymLoopV(_, _, _, _, _, _, _)
RECURSIVE kSymAddV(_, _, _, _, _)
kSymLoopV(g, d, temp, playerClass, s, act, result) ==
  IF act >= getNumKSymActions(g, playerClass)
    THEN [g |-> g, d |-> d, temp |-> temp, res |-> Val(result)]
  ELSE IF QPos(s[playerClass][act])
    THEN kSymAddV(getKSymMixedPayoffActV(g, d, temp, playerClass, act, s),
                  playerClass, s, act, result)
    ELSE kSymLoopV(g, d, temp, playerClass, s, act + 1, result)

kSymAddV(v, playerClass, s, act, result) ==
  kSymLoopV(v.g, v.d, v.temp, playerClass, s, act + 1,
            QAdd(result, QMul(s[playerClass][act], v.res.val)))

getKSymMixedPayoffV(g, d, temp, playerClass, s) ==
  kSymLoopV(g, d, temp, playerClass, s, 0, Zero)

\* getKSymMixedPayoff(playerClass, s), s the flat profile
RECURSIVE kSymLoop(_, _, _, _, _, _, _)
RECURSIVE kSymAdd(_, _, _, _, _)
kSymLoop(g, d, temp, playerClass, s, act, result) ==
  IF act >= getNumKSymActions(g, playerClass)
    THEN [g |-> g, d |-> d, temp |-> temp, res |-> Val(result)]
  ELSE IF QPos(s[firstKSymAction(g, playerClass) + act])
    THEN kSymAdd(getKSymMixedPayoffAct(g, d, temp, s, playerClass, act, -1, -1),
                 playerClass, s, act, result)
    ELSE kSymLoop(g, d, temp, playerClass, s, act + 1, result)

kSymAdd(v, playerClass, s, act, result) ==
  kSymLoop(v.g, v.d, v.temp, playerClass, s, act + 1,
           QAdd(result, QMul(s[firstKSymAction(v.g, playerClass) + act], v.res.val)))

getKSymMixedPayoff(g, d, temp, playerClass, s) ==
  kSymLoop(g, d, temp, playerClass, s, 0, Zero)

RECURSIVE kSymVectorLoop(_, _, _, _, _, _, _)
RECURSIVE kSymVectorSet(_, _, _, _, _)
kSymVectorLoop(g, d, temp, playerClass, s, act, dest) ==
  IF act >= getNumKSymActions(g, playerClass)
    THEN [g |-> g, d |-> d, temp |-> temp, res |-> Val(dest)]
  ELSE kSymVectorSet(getKSymMixedPayoffAct(g, d, temp, s, playerClass, act, -1, -1),
                     playerClass, s, act, dest)

kSymVectorSet(v, playerClass, s, act, dest) ==
  kSymVectorLoop(v.g, v.d, v.temp, playerClass, s, act + 1,
                 [dest EXCEPT ![act] = v.res.val])

getKSymPayoffVector(g, d, temp, playerClass, s) ==
  kSymVectorLoop(g, d, temp, playerClass, s, 0,
                 [a \in 0 .. getNumKSymActions(g, playerClass) - 1 |-> Zero])

\* max(result, it.second) in getMaxPayoff, min(result, it.second) in getMinPayoff
pickOf(pick, a, b) == IF pick = "max" THEN QMax(a, b) ELSE QMin(a, b)

\* result = pick(result, it.second) for every entry of the table U
RECURSIVE foldTable(_, _, _, _, _)
foldTable(pick, U, keys, r, result) ==
  IF r >= VLen(keys) THEN result
  ELSE foldTable(pick, U, keys, r + 1, pickOf(pick, result, U[keys[r]]))

\* the loop of getMaxPayoff and getMinPayoff over the nodes from i on
RECURSIVE foldPayoffs(_, _, _, _)
foldPayoffs(g, pick, i, result) ==
  IF i >= g.numActionNodes THEN result
  ELSE foldPayoffs(g, pick, i + 1,
                   foldTable(pick, g.payoffs[i], VSorted(DOMAIN g.payoffs[i]), 0, result))

\* payoffs[0].begin()->second
firstEntry(U) == U[VSorted(DOMAIN U)[0]]

getMaxPayoff(g) == foldPayoffs(g, "max", 1, firstEntry(g.payoffs[0]))

getMinPayoff(g) == foldPayoffs(g, "min", 1, firstEntry(g.payoffs[0]))

(***************************************************************************)
(* The games offered to the constructor.                                   *)
(***************************************************************************)
VV(seqs) == [i \in 0 .. Len(seqs) - 1 |-> Vec(seqs[i + 1])]
KU(k, u) == [key |-> Vec(k), u |-> QInt(u)]
KUs(seq) == [i \in 0 .. Len(seq) - 1 |-> KU(seq[i + 1][1], seq[i + 1][2])]

\* two players sharing the actions 0 and 1, each node seeing both counts
\* (a coordination game); its MAPPING tables also list the key no play reaches
Coordination ==
  [from |-> "file", n |-> 2, S |-> 2, P |-> 0,
   ASets |-> VV(<< <<0, 1>>, <<0, 1>> >>),
   neighb |-> VV(<< <<0, 1>>, <<0, 1>> >>),
   projTypes |-> Vec(<<>>),
   paytype |-> Vec(<<MAPPING, MAPPING>>),
   payin |-> Vec(<< KUs(<< <<<<2, 0>>, 2>>, <<<<1, 1>>, 0>>, <<<<0, 2>>, 0>> >>),
                    KUs(<< <<<<2, 0>>, 0>>, <<<<1, 1>>, 0>>, <<<<0, 2>>, 2>> >>) >>)]

\* two players with different action sets {0,1} and {1,2}; function node 3
\* (EXIST) watches the outer actions 0 and 2
TwoClasses ==
  [from |-> "file", n |-> 2, S |-> 3, P |-> 1,
   ASets |-> VV(<< <<0, 1>>, <<1, 2>> >>),
   neighb |-> VV(<< <<1, 3>>, <<0, 1, 2>>, <<3>>, <<0, 2>> >>),
   projTypes |-> Vec(<<P_EXIST>>),
   paytype |-> Vec(<<COMPLETE, COMPLETE, COMPLETE>>),
   payin |-> Vec(<< Vec(<<QInt(1), QInt(4)>>),
                    Vec(<<QInt(3), QInt(0), QInt(2)>>),
                    Vec(<<QInt(1)>>) >>)]

\* three players: 0 and 1 share the actions {0,1}, player 2 has the action 2
\* alone; function node 3 (SUM) counts the players on 1 and 2
ThreePlayers ==
  [from |-> "file", n |-> 3, S |-> 3, P |-> 1,
   ASets |-> VV(<< <<0, 1>>, <<0, 1>>, <<2>> >>),
   neighb |-> VV(<< <<0, 3>>, <<3>>, <<0, 1>>, <<1, 2>> >>),
   projTypes |-> Vec(<<P_SUM>>),
   paytype |-> Vec(<<COMPLETE, COMPLETE, COMPLETE>>),
   payin |-> Vec(<< Vec(<<QInt(2), QInt(5)>>),
                    Vec(<<QInt(1), QInt(3)>>),
                    Vec(<<QInt(0), QInt(1), QInt(2)>>) >>)]

\* the coordination game built from in-memory arrays whose payoff table of
\* node 0 lacks the configuration [1,1]
Incomplete ==
  [Coordination EXCEPT
     !.from = "arrays",
     !.payin = Vec(<< KUs(<< <<<<2, 0>>, 2>> >>),
                      KUs(<< <<<<2, 0>>, 0>>, <<<<1, 1>>, 1>>, <<<<0, 2>>, 2>> >>) >>)]

\* three players sharing the actions 0 and 1, both nodes seeing only the
\* function node 2 (SUM over both actions)
SharedSum ==
  [from |-> "file", n |-> 3, S |-> 2, P |-> 1,
   ASets |-> VV(<< <<0, 1>>, <<0, 1>>, <<0, 1>> >>),
   neighb |-> VV(<< <<2>>, <<2>>, <<0, 1>> >>),
   projTypes |-> Vec(<<P_SUM>>),
   paytype |-> Vec(<<MAPPING, MAPPING>>),
   payin |-> Vec(<< KUs(<< <<<<3>>, 7>> >>), KUs(<< <<<<3>>, 5>> >>) >>)]

\* two players sharing the actions 0 and 1: node 0 sees only the function node
\* 2 (SUM over both actions), so both actions of a player project to the same
\* key there; node 1 sees the count of itself
PairSum ==
  [from |-> "file", n |-> 2, S |-> 2, P |-> 1,
   ASets |-> VV(<< <<0, 1>>, <<0, 1>> >>),
   neighb |-> VV(<< <<2>>, <<1>>, <<0, 1>> >>),
   projTypes |-> Vec(<<P_SUM>>),
   paytype |-> Vec(<<MAPPING, MAPPING>>),
   payin |-> Vec(<< KUs(<< <<<<2>>, 7>> >>),
                    KUs(<< <<<<1>>, 5>>, <<<<2>>, 1>> >>) >>)]

GameFile(i) ==
  CASE i = 1 -> Coordination
    [] i = 2 -> TwoClasses
    [] i = 3 -> ThreePlayers
    [] i = 4 -> Incomplete
    [] i = 5 -> PairSum
    [] OTHER -> SharedSum

construct(gf) == IF gf.from = "file" THEN makeAGG(gf) ELSE makeFromArrays(gf)

\* the game objects whose construction succeeds
Games == {construct(GameFile(i)).agg :
            i \in {h \in 1 .. NumGames : construct(GameFile(h)).err = "none"}}

(***************************************************************************)
(* Inputs of the oracle.                                                   *)
(***************************************************************************)
Probs == {AggNumber(k, Den) : k \in 0 .. Den}

\* the probability vectors over m actions
Simplex(m) ==
  {v \in [0 .. m - 1 -> Probs] : QSum(v, 0 .. m - 1) = One}

\* the mixed profiles of g: one probability vector per player, concatenated
RECURSIVE concatFrom(_, _, _)
concatFrom(g, parts, i) ==
  IF i >= g.numPlayers THEN Vec(<<>>)
  ELSE LET rest == concatFrom(g, parts, i + 1)
           len == g.actions[i] + VLen(rest)
       IN  [x \in 0 .. len - 1 |->
              IF x < g.actions[i] THEN parts[i][x] ELSE rest[x - g.actions[i]]]

Profiles(g) ==
  LET choices == {f \in [0 .. g.numPlayers - 1 -> UNION {Simplex(g.actions[i]) :
                                                          i \in 0 .. g.numPlayers - 1}] :
                    \A i \in 0 .. g.numPlayers - 1 : VLen(f[i]) = g.actions[i]}
  IN  {concatFrom(g, f, 0) : f \in choices}

PureProfiles(g) ==
  {f \in [0 .. g.numPlayers - 1 -> 0 .. g.numActionNodes - 1] :
     \A i \in 0 .. g.numPlayers - 1 : f[i] < g.actions[i]}

\* the mixed profile putting probability 1 on sigma[q] for each player q
indicator(g, sigma) ==
  [x \in 0 .. g.totalActions - 1 |->
     LET q == CHOOSE i \in 0 .. g.numPlayers - 1 :
                g.strategyOffset[i] <= x /\ x < g.strategyOffset[i + 1]
     IN  IF x - g.strategyOffset[q] = sigma[q] THEN One ELSE Zero]

\* profiles no oracle should accept: a negative probability, a vector too long
BadProfiles(g) ==
  {[indicator(g, [i \in 0 .. g.numPlayers - 1 |-> g.actions[i] - 1])
      EXCEPT ![0] = AggNumber(-1, Den)],
   VAppend(indicator(g, [i \in 0 .. g.numPlayers - 1 |-> g.actions[i] - 1]), One)}

Offered(g) == Profiles(g) \cup BadProfiles(g)

\* one strategy over the action nodes, for the symmetric oracle
SymOffered(g) ==
  Simplex(g.numActionNodes)
    \cup {[x \in 0 .. g.numActionNodes - 1 |->
             IF x = 0 THEN AggNumber(-1, Den) ELSE Zero]}

\* the class-wise profiles: one probability vector per player class, flat
KProfiles(g) ==
  LET classes == DOMAIN g.playerClasses
      choices == {f \in [classes -> UNION {Simplex(getNumKSymActions(g, c)) :
                                             c \in classes}] :
                    \A c \in classes : VLen(f[c]) = getNumKSymActions(g, c)}
  IN  {[x \in 0 .. g.kSymStrategyOffset[VLen(g.playerClasses)] - 1 |->
          LET c == CHOOSE c \in classes :
                     /\ g.kSymStrategyOffset[c] <= x
                     /\ x < g.kSymStrategyOffset[c + 1]
          IN  f[c][x - g.kSymStrategyOffset[c]]] : f \in choices}

\* what a read of undefined behaviour may yield
Junk == {Zero, QInt(99)}

Players(g) == 0 .. g.numPlayers - 1
Classes(g) == DOMAIN g.playerClasses

\* the second, forced action of a k-symmetric call: none, or an action of a class
Forced(g) ==
  {<<-1, -1>>} \cup {<<c, a>> \in Classes(g) \X (0 .. g.numActionNodes - 1) :
                       a < getNumKSymActions(g, c)}

(***************************************************************************)
(* State: the game objects (agg), the static buffers d and temp of the two *)
(* overloads of getKSymMixedPayoff (flat profile, vector of strategies),   *)
(* the last oracle call with its result (ret), the number of calls, and    *)
(* for each thread the frame of the getKSymMixedPayoff call it is in.      *)
(***************************************************************************)
VARIABLES agg, d, temp, ret, calls, frame

vars == <<agg, d, temp, ret, calls, frame>>

\* the thread is in no call
Idle == [pc |-> "idle"]

\* the one game object of a sequential run
Solo == {"A"}

Init ==
  /\ \E g \in Games : agg = [i \in Solo |-> g]
  /\ d = [flat |-> reset, vec |-> reset]
  /\ temp = [flat |-> reset, vec |-> reset]
  /\ ret = [op |-> "constructed"]
  /\ calls = 0
  /\ frame = [i \in Solo |-> Idle]

\* the run has calls left to make
CanCall == calls < MaxCalls

\* the call on instance i returns: r holds the object it leaves and its
\* result, call names the operation and its arguments
Return(i, r, call) ==
  /\ agg' = [agg EXCEPT ![i] = r.g]
  /\ ret' = call @@ [inst |-> i, res |-> r.res]
  /\ calls' = calls + 1
  /\ UNCHANGED <<d, temp, frame>>

\* the same for a call that may have read an undefined value
ReturnSym(i, r, call, junk) ==
  /\ r.ub \/ junk = Zero
  /\ Return(i, r, call @@ [ub |-> r.ub])

\* the same for a call of the overload whose static buffers are d[st], temp[st]
ReturnKSym(i, r, call, st) ==
  /\ agg' = [agg EXCEPT ![i] = r.g]
  /\ ret' = call @@ [inst |-> i, res |-> r.res]
  /\ calls' = calls + 1
  /\ d' = [d EXCEPT ![st] = r.d]
  /\ temp' = [temp EXCEPT ![st] = r.temp]
  /\ UNCHANGED frame

GetPurePayoff(i) ==
  /\ CanCall
  /\ \E player \in Players(agg[i]), sigma \in PureProfiles(agg[i]) :
       Return(i, getPurePayoff(agg[i], player, sigma),
              [op |-> "getPurePayoff", player |-> player, s |-> sigma])

GetV(i) ==
  /\ CanCall
  /\ \E player \in Players(agg[i]), s \in Offered(agg[i]) :
       \E act \in 0 .. agg[i].actions[player] - 1 :
         Return(i, getV(agg[i], player, act, s),
                [op |-> "getV", player |-> player, act |-> act, s |-> s])

GetMixedPayoff(i) ==
  /\ CanCall
  /\ \E player \in Players(agg[i]), s \in Offered(agg[i]) :
       Return(i, getMixedPayoff(agg[i], player, s),
              [op |-> "getMixedPayoff", player |-> player, s |-> s])

GetPayoffVector(i) ==
  /\ CanCall
  /\ \E player \in Players(agg[i]), s \in Offered(agg[i]) :
       Return(i, getPayoffVector(agg[i], player, s),
              [op |-> "getPayoffVector", player |-> player, s |-> s])

GetJ(i) ==
  /\ CanCall
  /\ \E player1 \in Players(agg[i]), s \in Offered(agg[i]) :
       \E act1 \in 0 .. agg[i].actions[player1] - 1, player2 \in Players(agg[i]) \ {player1} :
         \E act2 \in 0 .. agg[i].actions[player2] - 1 :
           Return(i, getJ(agg[i], player1, act1, player2, act2, s),
                  [op |-> "getJ", player |-> player1, act |-> act1,
                   player2 |-> player2, act2 |-> act2, s |-> s])

GetSymMixedPayoff(i) ==
  /\ CanCall
  /\ \E s \in SymOffered(agg[i]), junk \in Junk :
       ReturnSym(i, getSymMixedPayoff(agg[i], s, junk),
                 [op |-> "getSymMixedPayoff", s |-> s], junk)

GetSymPayoffVector(i) ==
  /\ CanCall
  /\ \E s \in SymOffered(agg[i]), junk \in Junk :
       ReturnSym(i, getSymPayoffVector(agg[i], s, junk),
                 [op |-> "getSymPayoffVector", s |-> s], junk)

GetSymMixedPayoffNode(i) ==
  /\ CanCall
  /\ \E node \in 0 .. agg[i].numActionNodes - 1, s \in SymOffered(agg[i]), junk \in Junk :
       ReturnSym(i, getSymMixedPayoffNode(agg[i], node, s, junk),
                 [op |-> "getSymMixedPayoffNode", node |-> node, s |-> s], junk)

GetKSymMixedPayoffAct(i) ==
  /\ CanCall
  /\ \E s \in KProfiles(agg[i]), pClass1 \in Classes(agg[i]), f2 \in Forced(agg[i]) :
       \E act1 \in 0 .. getNumKSymActions(agg[i], pClass1) - 1 :
         ReturnKSym(i, getKSymMixedPayoffAct(agg[i], d.flat, temp.flat, s, pClass1, act1,
                                             f2[1], f2[2]),
                    [op |-> "getKSymMixedPayoffAct", pClass1 |-> pClass1, act1 |-> act1,
                     pClass2 |-> f2[1], act2 |-> f2[2], s |-> s],
                    "flat")

GetKSymMixedPayoffActV(i) ==
  /\ CanCall
  /\ \E s \in KProfiles(agg[i]), playerClass \in Classes(agg[i]) :
       \E act \in 0 .. getNumKSymActions(agg[i], playerClass) - 1 :
         ReturnKSym(i, getKSymMixedPayoffActV(agg[i], d.vec, temp.vec, playerClass, act,
                         [pc \in Classes(agg[i]) |-> classSlice(agg[i], s, pc)]),
                    [op |-> "getKSymMixedPayoffActV", pClass1 |-> playerClass,
                     act1 |-> act, s |-> s],
                    "vec")

GetKSymMixedPayoff(i) ==
  /\ CanCall
  /\ \E s \in KProfiles(agg[i]), playerClass \in Classes(agg[i]) :
       ReturnKSym(i, getKSymMixedPayoff(agg[i], d.flat, temp.flat, playerClass, s),
                  [op |-> "getKSymMixedPayoff", pClass1 |-> playerClass, s |-> s],
                  "flat")

GetKSymMixedPayoffV(i) ==
  /\ CanCall
  /\ \E s \in KProfiles(agg[i]), playerClass \in Classes(agg[i]) :
       ReturnKSym(i, getKSymMixedPayoffV(agg[i], d.vec, temp.vec, playerClass,
                       [pc \in Classes(agg[i]) |-> classSlice(agg[i], s, pc)]),
                  [op |-> "getKSymMixedPayoffV", pClass1 |-> playerClass, s |-> s],
                  "vec")

GetKSymPayoffVector(i) ==
  /\ CanCall
  /\ \E s \in KProfiles(agg[i]), playerClass \in Classes(agg[i]) :
       ReturnKSym(i, getKSymPayoffVector(agg[i], d.flat, temp.flat, playerClass, s),
                  [op |-> "getKSymPayoffVector", pClass1 |-> playerClass, s |-> s],
                  "flat")

GetMaxPayoff(i) ==
  /\ CanCall
  /\ Return(i, [g |-> agg[i], res |-> Val(getMaxPayoff(agg[i]))], [op |-> "getMaxPayoff"])

GetMinPayoff(i) ==
  /\ CanCall
  /\ Return(i, [g |-> agg[i], res |-> Val(getMinPayoff(agg[i]))], [op |-> "getMinPayoff"])

Next ==
  \E i \in Solo :
    \/ GetPurePayoff(i)
    \/ GetV(i)
    \/ GetMixedPayoff(i)
    \/ GetPayoffVector(i)
    \/ GetJ(i)
    \/ GetSymMixedPayoff(i)
    \/ GetSymPayoffVector(i)
    \/ GetSymMixedPayoffNode(i)
    \/ GetKSymMixedPayoffAct(i)
    \/ GetKSymMixedPayoffActV(i)
    \/ GetKSymMixedPayoff(i)
    \/ GetKSymMixedPayoffV(i)
    \/ GetKSymPayoffVector(i)
    \/ GetMaxPayoff(i)
    \/ GetMinPayoff(i)

Spec == Init /\ [][Next]_vars

(***************************************************************************)
(* Two threads, each with a game object of its own, each making one call   *)
(* of getKSymMixedPayoff for an action of a class.  The statements of the  *)
(* two calls interleave; the static buffers d and temp of an overload are  *)
(* the same for both threads.                                              *)
(***************************************************************************)
Pair == {"A", "B"}

InitConc ==
  /\ \E ga \in Games, gb \in Games : agg = [i \in Pair |-> IF i = "A" THEN ga ELSE gb]
  /\ d = [flat |-> reset, vec |-> reset]
  /\ temp = [flat |-> reset, vec |-> reset]
  /\ ret = [op |-> "constructed"]
  /\ calls = 0
  /\ frame = [i \in Pair |-> Idle]

\* the class-wise profiles in which every action has a positive probability
Interior(g) == {s \in KProfiles(g) : \A x \in DOMAIN s : QPos(s[x])}

\* thread i enters getKSymMixedPayoff: st tells the overload, and with it the
\* static buffers the call works in
KSymCall(i) ==
  /\ frame[i].pc = "idle"
  /\ \E s \in Interior(agg[i]), pClass1 \in Classes(agg[i]), st \in {"flat", "vec"} :
       \E act1 \in 0 .. getNumKSymActions(agg[i], pClass1) - 1 :
         frame' = [frame EXCEPT ![i] =
                     kSymStart([pc \in Classes(agg[i]) |-> classSlice(agg[i], s, pc)],
                               pClass1, act1, -1, -1) @@ [st |-> st]]
  /\ UNCHANGED <<agg, d, temp, ret, calls>>

\* the step of thread i has left n
KSymStepped(i, n) ==
  /\ agg' = [agg EXCEPT ![i] = n.g]
  /\ d' = [d EXCEPT ![frame[i].st] = n.d]
  /\ temp' = [temp EXCEPT ![frame[i].st] = n.temp]
  /\ frame' = [frame EXCEPT ![i] = n.fr]
  /\ UNCHANGED <<ret, calls>>

\* the keys of the distribution t are configurations of the node of the call
\* of thread i
Fits(t, i) ==
  \A k \in DOMAIN t :
    DOMAIN k = DOMAIN agg[i].neighbors[agg[i].uniqueActionSets[frame[i].pClass1]
                                                            [frame[i].act1]]

\* the next statement of thread i reads the static buffers and finds in them
\* the configurations of another node, left there by the other thread
Foreign(i) ==
  \/ /\ frame[i].pc = "multiply"
     /\ ~(Fits(d[frame[i].st], i) /\ Fits(temp[frame[i].st], i))
  \/ /\ frame[i].pc = "return"
     /\ ~Fits(d[frame[i].st], i)

\* thread i runs the next statement of its call
KSymStep(i) ==
  /\ frame[i].pc \notin {"idle", "done"}
  /\ ~Foreign(i)
  /\ KSymStepped(i, kSymStep(agg[i], d[frame[i].st], temp[frame[i].st], frame[i]))

\* thread i walks keys of a length its node does not have: a read past the end
\* of a vector, after which the call returns whatever it reads
KSymStepForeign(i) ==
  /\ frame[i].pc \notin {"idle", "done"}
  /\ Foreign(i)
  /\ \E junk \in Junk :
       frame' = [frame EXCEPT ![i].pc = "done", ![i].res = Val(junk)]
  /\ UNCHANGED <<agg, d, temp, ret, calls>>

NextConc ==
  \E i \in Pair :
    \/ KSymCall(i)
    \/ KSymStep(i)
    \/ KSymStepForeign(i)

SpecConc == InitConc /\ [][NextConc]_vars

(***************************************************************************)
(* Construction from files.  The files offered are the game files above    *)
(* and a game with a chain of two function nodes, each with one or two of  *)
(* its entries rewritten: an action index, a neighbor index, a projection  *)
(* type, the entries of a MAPPING table.                                   *)
(***************************************************************************)
\* two players sharing the actions 0 and 1; node 0 sees function node 2 (SUM
\* over node 0 and function node 3), node 1 sees function node 3 (SUM over 1)
Chain ==
  [from |-> "file", n |-> 2, S |-> 2, P |-> 2,
   ASets |-> VV(<< <<0, 1>>, <<0, 1>> >>),
   neighb |-> VV(<< <<2>>, <<3>>, <<0, 3>>, <<1>> >>),
   projTypes |-> Vec(<<P_SUM, P_SUM>>),
   paytype |-> Vec(<<MAPPING, MAPPING>>),
   payin |-> Vec(<< KUs(<< <<<<2>>, 3>> >>),
                    KUs(<< <<<<1>>, 1>>, <<<<2>>, 4>> >>) >>)]

BaseFiles == {Coordination, TwoClasses, ThreePlayers, SharedSum, Chain}

\* the coordination game with -1 written for the first neighbor of node 0, and
\* the table of node 0 over the configurations that file has
Stray ==
  [Coordination EXCEPT !.neighb[0] = Vec(<<-1, 1>>),
                       !.payin[0] = KUs(<< <<<<0, 0>>, 2>>, <<<<0, 1>>, 0>> >>)]

\* the file Chain with function node 3 summing over node 0: two paths lead
\* from function node 2 to node 0, one direct and one through function node 3
Diamond ==
  [Chain EXCEPT !.neighb[3] = Vec(<<0>>),
                !.payin = Vec(<< KUs(<< <<<<2>>, 3>>, <<<<4>>, 1>> >>),
                                 KUs(<< <<<<0>>, 1>>, <<<<1>>, 4>> >>) >>)]

\* one action index rewritten, to any value from -1 to S
EditASets(gf) ==
  UNION {UNION {{[gf EXCEPT !.ASets[i][j] = x] : x \in -1 .. gf.S} :
                j \in DOMAIN gf.ASets[i]} : i \in DOMAIN gf.ASets}

\* one neighbor index of node v rewritten, to any value from -1 to S + P
EditNeighbOf(gf, v) ==
  UNION {{[gf EXCEPT !.neighb[v][k] = x] : x \in -1 .. gf.S + gf.P} :
         k \in DOMAIN gf.neighb[v]}

EditNeighb(gf) == UNION {EditNeighbOf(gf, v) : v \in DOMAIN gf.neighb}

\* one neighbor index of a function node rewritten
EditFunctionNeighb(gf) ==
  UNION {EditNeighbOf(gf, v) : v \in gf.S .. gf.S + gf.P - 1}

\* the projection function of one function node rewritten
EditProj(gf) ==
  UNION {{[gf EXCEPT !.projTypes[g] = f] : f \in {P_SUM, P_EXIST}} :
         g \in DOMAIN gf.projTypes}

\* the vector v without its entry j
VDrop(v, j) == [r \in 0 .. VLen(v) - 2 |-> IF r < j THEN v[r] ELSE v[r + 1]]

\* the nodes whose payoff table comes in the MAPPING form
mappingNodes(gf) == {v \in DOMAIN gf.paytype : gf.paytype[v] = MAPPING}

\* the keys a MAPPING entry of node v may carry: one count up to n per neighbor
keysOf(gf, v) == [DOMAIN gf.neighb[v] -> 0 .. gf.n]

\* one entry of a MAPPING table left out
DropEntry(gf) ==
  UNION {{[gf EXCEPT !.payin[v] = VDrop(@, j)] : j \in DOMAIN gf.payin[v]} :
         v \in mappingNodes(gf)}

\* one entry added at the end of a MAPPING table, with any key
AddEntry(gf) ==
  UNION {{[gf EXCEPT !.payin[v] = VAppend(@, [key |-> k, u |-> QInt(9)])] :
          k \in keysOf(gf, v)} : v \in mappingNodes(gf)}

Edits(gf) ==
  EditASets(gf) \cup EditNeighb(gf) \cup EditProj(gf) \cup DropEntry(gf) \cup AddEntry(gf)

\* the files offered to makeAGG
BuildFiles ==
  UNION {Edits(gf) : gf \in BaseFiles}
    \cup UNION {AddEntry(gf) : gf \in DropEntry(Coordination)}
    \cup UNION {EditProj(gf) : gf \in EditFunctionNeighb(Chain)}
    \cup {Stray, Diamond}

(***************************************************************************)
(* The file as makeAGG reads it: a sequence of tokens separated by white   *)
(* space, each an integer, a bracket, or a comment running from # to the   *)
(* end of its line.  The file ends with a newline.                         *)
(***************************************************************************)
Num(x) == [t |-> "int", v |-> x]
Mark(c) == [t |-> c, v |-> 0]

\* stripComment: skip white space, and while the next character is #, the
\* rest of the line
RECURSIVE stripComment(_, _)
stripComment(in, pos) ==
  IF pos <= Len(in) /\ in[pos].t = "#" THEN stripComment(in, pos + 1) ELSE pos

\* in >> x for an integer x leaves the stream good
good(in, pos) == pos <= Len(in) /\ in[pos].t = "int"

\* k times in >> x, with nothing skipped in between but white space
RECURSIVE readInts(_, _, _, _)
readInts(in, pos, k, acc) ==
  IF k <= 0 THEN [ok |-> TRUE, vals |-> acc, pos |-> pos]
  ELSE IF good(in, pos) THEN readInts(in, pos + 1, k - 1, VAppend(acc, in[pos].v))
  ELSE [ok |-> FALSE, vals |-> acc, pos |-> pos]

\* the payoff tables, node v next; keys are the acceptance sets
RECURSIVE readTables(_, _, _, _, _)
RECURSIVE readEntries(_, _, _, _, _, _, _)

\* the entry read is inserted unless its key has a utility already
readEntry(in, g, keys, v, num, r, entries) ==
  IF r.pos > Len(in) \/ in[r.pos].t # "]"
    THEN [err |-> "] expected", at |-> v]
  ELSE IF ~good(in, r.pos + 1)
    THEN [err |-> "Error trying to read the utility value", at |-> v, key |-> r.vals]
  ELSE IF \E h \in DOMAIN entries : entries[h].key = r.vals
    THEN [err |-> "overwriting utility", at |-> v, key |-> r.vals]
  ELSE readEntries(in, g, keys, v, num - 1, r.pos + 2,
                   VAppend(entries, [key |-> r.vals, u |-> QInt(in[r.pos + 1].v)]))

\* the table of node v is read: the check of makeMAPPINGpayoff, then node v + 1
readChecked(in, g, keys, v, pos, entries, r) ==
  IF r.err # "none" THEN r @@ [at |-> v]
  ELSE readTables(in, [g EXCEPT !.paytype = VAppend(@, MAPPING),
                                !.payin = VAppend(@, entries)],
                  keys, v + 1, stripComment(in, pos))

readEntries(in, g, keys, v, num, pos, entries) ==
  IF num <= 0
    THEN readChecked(in, g, keys, v, pos, entries,
                     makeMAPPINGpayoff(entries, [k \in keys[v] |-> One],
                                       VLen(g.neighb[v])))
  ELSE IF pos > Len(in) THEN [err |-> "bad input", at |-> v]
  ELSE IF in[pos].t # "[" THEN [err |-> "[ expected", at |-> v]
  ELSE IF ~readInts(in, pos + 1, VLen(g.neighb[v]), Vec(<<>>)).ok
    THEN [err |-> "ERROR trying to read element", at |-> v]
  ELSE readEntry(in, g, keys, v, num,
                 readInts(in, pos + 1, VLen(g.neighb[v]), Vec(<<>>)), entries)

\* a COMPLETE table: one utility for each key of the acceptance set
readComplete(in, g, keys, v, r) ==
  IF ~r.ok THEN [err |-> "not enough payoffs", at |-> v]
  ELSE readTables(in, [g EXCEPT !.paytype = VAppend(@, COMPLETE),
                                !.payin = VAppend(@, [j \in DOMAIN r.vals |->
                                                        QInt(r.vals[j])])],
                  keys, v + 1, stripComment(in, r.pos))

readTables(in, g, keys, v, pos) ==
  IF v >= g.S THEN makeAGG(g)
  ELSE IF pos > Len(in) /\ v = 0 THEN [err |-> "not enough payoffs", at |-> v]
  ELSE IF ~good(in, pos)
    THEN [err |-> "Error reading the integer type of the utility function", at |-> v]
  ELSE IF in[pos].v = COMPLETE
    THEN readComplete(in, g, keys, v,
                      readInts(in, pos + 1, Cardinality(keys[v]), Vec(<<>>)))
  ELSE IF in[pos].v = MAPPING
    THEN IF ~good(in, stripComment(in, pos + 1))
           THEN [err |-> "Error reading the integer number of configuration-value pairs",
                 at |-> v]
           ELSE readEntries(in, g, keys, v, in[stripComment(in, pos + 1)].v,
                            stripComment(in, pos + 1) + 1, Vec(<<>>))
  ELSE [err |-> "Unknown payoff type", at |-> v]

\* the projections and the acceptance sets, between the projection types and
\* the payoff tables
readProjected(in, g, pos, sp) ==
  IF sp.err # "none" THEN sp
  ELSE readTables(in, g, acceptFrom(g, sp), 0, stripComment(in, pos))

\* the projection types: the tag of SUM is 0 and the tag of EXIST is 1
RECURSIVE readProjTypes(_, _, _, _)
readProjTypes(in, g, i, pos) ==
  IF i >= g.P
    THEN readProjected(in, g, pos,
                       setProjections(g.n, g.S, g.P, g.ASets, g.neighb, g.projTypes))
  ELSE IF ~good(in, pos)
    THEN [err |-> "expected integer for type of function node", at |-> i]
  ELSE IF in[pos].v \notin {0, 1}
    THEN [err |-> "unknown projection type", at |-> i]
  ELSE readProjTypes(in, [g EXCEPT !.projTypes =
                                     VAppend(@, IF in[pos].v = 0 THEN P_SUM ELSE P_EXIST)],
                     i + 1, stripComment(in, pos + 1))

\* the neighbor lists: a comment may come before the size of a list only
RECURSIVE readNeighb(_, _, _, _)
readNeighbNext(in, g, i, r) ==
  IF ~r.ok
    THEN [err |-> "Error while reading neighbor", at |-> i, j |-> VLen(r.vals)]
  ELSE readNeighb(in, [g EXCEPT !.neighb = VAppend(@, r.vals)], i + 1,
                  stripComment(in, r.pos))

readNeighb(in, g, i, pos) ==
  IF i >= g.S + g.P THEN readProjTypes(in, g, 0, stripComment(in, pos))
  ELSE IF ~good(in, pos)
    THEN [err |-> "Error reading the size of the neighbor list", at |-> i]
  ELSE readNeighbNext(in, g, i, readInts(in, pos + 1, in[pos].v, Vec(<<>>)))

\* the action lists: a comment may come before the list of a player only
RECURSIVE readASets(_, _, _, _, _)
readASetsNext(in, g, size, i, r) ==
  IF ~r.ok
    THEN [err |-> "Error reading the node index of action", at |-> i, j |-> VLen(r.vals)]
  ELSE readASets(in, [g EXCEPT !.ASets = VAppend(@, r.vals)], size, i + 1,
                 stripComment(in, r.pos))

readASets(in, g, size, i, pos) ==
  IF i >= g.n THEN readNeighb(in, g, 0, stripComment(in, pos))
  ELSE readASetsNext(in, g, size, i, readInts(in, pos, size[i], Vec(<<>>)))

\* the sizes of the action sets, read one after the other
readSizes(in, g, r) ==
  IF ~r.ok
    THEN [err |-> "Error reading the size of action set", at |-> VLen(r.vals)]
  ELSE readASets(in, g, r.vals, 0, stripComment(in, r.pos))

readP(in, n, S, pos) ==
  IF ~good(in, pos) THEN [err |-> "Error reading the number of function nodes"]
  ELSE readSizes(in, [from |-> "file", n |-> n, S |-> S, P |-> in[pos].v,
                      ASets |-> Vec(<<>>), neighb |-> Vec(<<>>),
                      projTypes |-> Vec(<<>>), paytype |-> Vec(<<>>),
                      payin |-> Vec(<<>>)],
                 readInts(in, stripComment(in, pos + 1), n, Vec(<<>>)))

readS(in, n, pos) ==
  IF ~good(in, pos) THEN [err |-> "Error reading the number of action nodes"]
  ELSE readP(in, n, in[pos].v, stripComment(in, pos + 1))

readN(in, pos) ==
  IF ~good(in, pos) THEN [err |-> "Error reading the number of players"]
  ELSE readS(in, in[pos].v, stripComment(in, pos + 1))

\* makeAGG(istream &in)
makeAGGin(in) == readN(in, stripComment(in, 1))

\* the sequences of seqs one after the other
RECURSIVE Cat(_)
Cat(seqs) == IF seqs = <<>> THEN <<>> ELSE Head(seqs) \o Cat(Tail(seqs))

\* the integers of the vector v as tokens
Ints(v) == [j \in 1 .. VLen(v) |-> Num(v[j - 1])]

\* the payoff table of node v as the file gives it
TableTokens(gf, v) ==
  IF gf.paytype[v] = MAPPING
    THEN <<Num(MAPPING), Num(VLen(gf.payin[v]))>>
           \o Cat([j \in 1 .. VLen(gf.payin[v]) |->
                     <<Mark("[")>> \o Ints(gf.payin[v][j - 1].key)
                       \o <<Mark("]"), Num(gf.payin[v][j - 1].u[1])>>])
    ELSE <<Num(COMPLETE)>>
           \o [j \in 1 .. VLen(gf.payin[v]) |-> Num(gf.payin[v][j - 1][1])]

\* the file of the game gf, without comments
Tokens(gf) ==
  <<Num(gf.n), Num(gf.S), Num(gf.P)>>
    \o [i \in 1 .. gf.n |-> Num(VLen(gf.ASets[i - 1]))]
    \o Cat([i \in 1 .. gf.n |-> Ints(gf.ASets[i - 1])])
    \o Cat([v \in 1 .. gf.S + gf.P |->
              <<Num(VLen(gf.neighb[v - 1]))>> \o Ints(gf.neighb[v - 1])])
    \o [g \in 1 .. gf.P |-> Num(IF gf.projTypes[g - 1] = P_SUM THEN 0 ELSE 1)]
    \o Cat([v \in 1 .. gf.S |-> TableTokens(gf, v - 1)])

\* the file with a comment put after its first k tokens
Commented(in, k) == SubSeq(in, 1, k) \o <<Mark("#")>> \o SubSeq(in, k + 1, Len(in))

\* what a read past the end of a vector may lead to: the process dies, or it
\* goes on with whatever it has read
Undefined == {"crash", "garbage"}

\* no game object yet
NotBuilt == [err |-> "not constructed"]

InitBuild ==
  /\ agg = [i \in Solo |-> NotBuilt]
  /\ d = [flat |-> reset, vec |-> reset]
  /\ temp = [flat |-> reset, vec |-> reset]
  /\ ret = [op |-> "none"]
  /\ calls = 0
  /\ frame = [i \in Solo |-> Idle]

\* what the caller of makeAGG sees: the error thrown, or none
thrown(r) == [f \in (DOMAIN r) \ {"agg"} |-> r[f]]

\* makeAGG(gf) has ended with r; out is the outcome of undefined behaviour
Built(i, gf, r, out) ==
  /\ IF r.err = "undefined" THEN out \in Undefined ELSE out = "none"
  /\ ret' = [op |-> "makeAGG", inst |-> i, gf |-> gf,
             res |-> IF r.err = "undefined"
                       THEN [err |-> "undefined", outcome |-> out]
                       ELSE thrown(r)]
  /\ agg' = IF r.err = "none" THEN [agg EXCEPT ![i] = r.agg] ELSE agg
  /\ calls' = calls + 1
  /\ UNCHANGED <<d, temp, frame>>

\* the tables of at most MaxEntries entries over the keys of node v, the
\* utility of the entry at position j being j + 1
TablesFor(gf, v) ==
  UNION {{[j \in 0 .. len - 1 |-> [key |-> ks[j], u |-> QInt(j + 1)]] :
          ks \in [0 .. len - 1 -> keysOf(gf, v)]} : len \in 0 .. MaxEntries}

MappingFiles == {gf \in BaseFiles : mappingNodes(gf) # {}}

\* makeMAPPINGpayoff(entries, pay, numNei) has ended with r
Mapped(i, entries, pay, numNei, r) ==
  /\ ret' = [op |-> "makeMAPPINGpayoff", inst |-> i, entries |-> entries,
             pay |-> pay, numNei |-> numNei, res |-> r]
  /\ calls' = calls + 1
  /\ UNCHANGED <<agg, d, temp, frame>>

\* the table reader on its own, with the acceptance set of a node of a file
MakeMAPPINGpayoff(i) ==
  /\ ret.op = "none"
  /\ \E gf \in MappingFiles : \E v \in mappingNodes(gf) :
       \E entries \in TablesFor(gf, v) :
         Mapped(i, entries, [k \in acceptOf(gf)[v] |-> One], VLen(gf.neighb[v]),
                makeMAPPINGpayoff(entries, [k \in acceptOf(gf)[v] |-> One],
                                  VLen(gf.neighb[v])))

MakeAGG(i) ==
  /\ ret.op = "none"
  /\ \E gf \in BuildFiles, out \in Undefined \cup {"none"} :
       Built(i, gf, makeAGG(gf), out)

\* makeAGG has ended with r on the file of gf with a comment after k tokens
Parsed(i, gf, k, r, out) ==
  /\ IF r.err = "undefined" THEN out \in Undefined ELSE out = "none"
  /\ ret' = [op |-> "readAGG", inst |-> i, gf |-> gf, k |-> k,
             res |-> IF r.err = "undefined"
                       THEN [err |-> "undefined", outcome |-> out]
                       ELSE thrown(r)]
  /\ agg' = IF r.err = "none" THEN [agg EXCEPT ![i] = r.agg] ELSE agg
  /\ calls' = calls + 1
  /\ UNCHANGED <<d, temp, frame>>

\* makeAGG on the file of a game with one comment in it
ReadAGG(i) ==
  /\ ret.op = "none"
  /\ \E gf \in BaseFiles, out \in Undefined \cup {"none"} :
       \E k \in 0 .. Len(Tokens(gf)) :
         Parsed(i, gf, k, makeAGGin(Commented(Tokens(gf), k)), out)

NextBuild ==
  \E i \in Solo :
    \/ MakeAGG(i)
    \/ MakeMAPPINGpayoff(i)
    \/ ReadAGG(i)

SpecBuild == InitBuild /\ [][NextBuild]_vars

(***************************************************************************)
(* The enumerator on its own: frame[i] holds the GrayComposition object of *)
(* thread i (n, k, the number r of changes made, the current composition,  *)
(* the indices d and i of the last change, finished), ret                  *)
(* the last operation and the compositions get() has returned so far.      *)
(***************************************************************************)
\* GrayComposition(n, k): the object after construction
GrayComposition(n, k) ==
  [pc |-> "gray", n |-> n, k |-> k, r |-> 0,
   current |-> [j \in 0 .. k - 1 |-> IF j = 0 THEN n ELSE 0],
   d |-> -1, i |-> -1, finished |-> FALSE]

\* the change that leads from the composition c, read as its first k parts, to
\* the next one in the enumeration (fwd) or to the one before (~fwd): the part
\* d to decrement and the part i to increment, or ok = FALSE at the end.  The
\* compositions come in blocks of equal last part, the blocks of an odd last
\* part running backwards.
RECURSIVE grayNext(_, _, _)
RECURSIVE grayEdge(_, _, _, _)
grayNext(c, k, fwd) ==
  IF k = 1 THEN [ok |-> FALSE]
  ELSE grayEdge(c, k, fwd, grayNext(c, k - 1, fwd = (c[k - 1] % 2 = 0)))

\* inner is the change inside the block of the last part c[k-1]; at the end
\* of the block one unit moves between the last part and the part that holds
\* the rest
grayEdge(c, k, fwd, inner) ==
  IF inner.ok THEN inner
  ELSE IF fwd
    THEN IF c[IF fwd = (c[k - 1] % 2 = 0) THEN k - 2 ELSE 0] = 0
           THEN [ok |-> FALSE]
           ELSE [ok |-> TRUE, d |-> IF fwd = (c[k - 1] % 2 = 0) THEN k - 2 ELSE 0,
                 i |-> k - 1]
    ELSE IF c[k - 1] = 0
           THEN [ok |-> FALSE]
           ELSE [ok |-> TRUE, d |-> k - 1,
                 i |-> IF fwd = (c[k - 1] % 2 = 0) THEN k - 2 ELSE 0]

\* faulty variant: the indices d and i are exposed exchanged
incrSwapped(gc, nx) ==
  IF ~nx.ok THEN [gc EXCEPT !.finished = TRUE]
  ELSE [gc EXCEPT !.r = gc.r + 1,
                  !.current = [gc.current EXCEPT ![nx.d] = @ - 1, ![nx.i] = @ + 1],
                  !.d = nx.i,
                  !.i = nx.d]

\* the object after the change nx
incrBy(gc, nx) ==
  IF ~nx.ok THEN [gc EXCEPT !.finished = TRUE]
  ELSE [gc EXCEPT !.r = gc.r + 1,
                  !.current = [gc.current EXCEPT ![nx.d] = @ - 1, ![nx.i] = @ + 1],
                  !.d = nx.d,
                  !.i = nx.i]

\* faulty variant of incr(): the enumeration never leaves the block of the
\* last part 0
incrBlock(gc) ==
  IF gc.k = 1 THEN [gc EXCEPT !.finished = TRUE]
  ELSE incrBy(gc, grayNext(gc.current, gc.k - 1, TRUE))

\* incr(): the next composition with the indices of the change, or eof
incr(gc) == incrBy(gc, grayNext(gc.current, gc.k, TRUE))

InitGray == InitBuild

\* the constructor, and the first get()
GrayNew(i) ==
  /\ ret.op = "none"
  /\ \E n \in 0 .. MaxTotal, k \in 1 .. MaxParts :
       /\ frame' = [frame EXCEPT ![i] = GrayComposition(n, k)]
       /\ ret' = [op |-> "GrayComposition", inst |-> i,
                  emitted |-> <<GrayComposition(n, k).current>>]
  /\ UNCHANGED <<agg, d, temp, calls>>

\* one turn of the loop of the caller: incr(), then eof() and, when it is
\* false, get()
GrayIncr(i) ==
  /\ frame[i].pc = "gray"
  /\ ~frame[i].finished
  /\ frame' = [frame EXCEPT ![i] = incr(frame[i])]
  /\ ret' = [op |-> "incr", inst |-> i,
             emitted |-> IF incr(frame[i]).finished THEN ret.emitted
                         ELSE Append(ret.emitted, incr(frame[i]).current)]
  /\ UNCHANGED <<agg, d, temp, calls>>

NextGray ==
  \E i \in Solo :
    \/ GrayNew(i)
    \/ GrayIncr(i)

SpecGray == InitGray /\ [][NextGray]_vars

\* the loop of the caller goes on until eof()
SpecGrayLive == SpecGray /\ WF_vars(NextGray)

(***************************************************************************)
(* The enumeration loop of the pure-node path, one turn at a time, in      *)
(* getSymMixedPayoff(node, s) (kind "sym") and in getSymConfigProb (kind   *)
(* "conf").  frame[i] holds the locals of the call: support, the           *)
(* probability cat[j] of each support entry, the counts add put on every   *)
(* configuration, the enumerator gc, prob, and the sum V or the            *)
(* distribution dest built so far.                                         *)
(***************************************************************************)
\* the positions of the neighbors of node with positive probability, p being
\* the player whose actions s is indexed by (-1: s is indexed by action node)
loopHits(g, node, p, s) ==
  {x \in DOMAIN g.neighbors[node] :
     IF p = -1 THEN QPos(s[g.neighbors[node][x]])
     ELSE /\ g.node2Action[g.neighbors[node][x]][p] >= 0
          /\ QPos(s[g.node2Action[g.neighbors[node][x]][p]])}

\* s at the neighbor position x
loopProb(g, node, p, s, x) ==
  IF p = -1 THEN s[g.neighbors[node][x]]
  ELSE s[g.node2Action[g.neighbors[node][x]][p]]

loopNull(g, node, p, s) ==
  nullProb([x \in loopHits(g, node, p, s) |-> loopProb(g, node, p, s, x)])

loopSupport(g, node, p, s) ==
  supportOf(loopHits(g, node, p, s),
            /\ p = -1 => VLen(g.neighbors[node]) < g.numActionNodes
            /\ QPos(loopNull(g, node, p, s)))

\* the locals at the head of the while loop: GrayComposition gc(N, k) and
\* prob = pow(prob of support[0], N)
loopStart(kind, call, g, node, p, s, N, add) ==
  [pc |-> "loop", kind |-> kind, call |-> call, node |-> node,
   support |-> loopSupport(g, node, p, s),
   cat |-> [j \in DOMAIN loopSupport(g, node, p, s) |->
              IF loopSupport(g, node, p, s)[j] # -1
                THEN loopProb(g, node, p, s, loopSupport(g, node, p, s)[j])
                ELSE loopNull(g, node, p, s)],
   add |-> add,
   gc |-> GrayComposition(N, VLen(loopSupport(g, node, p, s))),
   prob |-> QPow(IF loopSupport(g, node, p, s)[0] >= 0
                   THEN loopProb(g, node, p, s, loopSupport(g, node, p, s)[0])
                   ELSE loopNull(g, node, p, s),
                 N),
   V |-> Zero, ub |-> FALSE, dest |-> reset]

\* faulty variant of the update of prob: the count of the decremented part is
\* taken after the change, without the + 1
loopUpdateStale(fr, gc) ==
  IF gc.finished THEN [fr EXCEPT !.pc = "return", !.gc = gc]
  ELSE [fr EXCEPT !.gc = gc,
                  !.prob = QMul(fr.prob,
                             QDiv(QDiv(QMul(QInt(gc.current[gc.d]), fr.cat[gc.i]),
                                       QInt(gc.current[gc.i])),
                                  fr.cat[gc.d]))]

\* gc.incr() has given gc: break at eof, update prob otherwise
loopUpdate(fr, gc) ==
  IF gc.finished THEN [fr EXCEPT !.pc = "return", !.gc = gc]
  ELSE [fr EXCEPT !.gc = gc,
                  !.prob = probUpdate(fr.prob, gc.current, fr.cat, gc.i, gc.d)]

\* the body of the loop up to gc.incr(): c is the configuration of the
\* current composition
loopVisit(g, fr, c, junk) ==
  IF fr.kind = "sym"
    THEN [fr EXCEPT !.V = QAdd(@, QMul(fr.prob, IF c \in DOMAIN g.payoffs[fr.node]
                                                  THEN g.payoffs[fr.node][c]
                                                  ELSE junk)),
                    !.ub = @ \/ c \notin DOMAIN g.payoffs[fr.node]]
    ELSE [fr EXCEPT !.dest = insert(@, c, fr.prob)]

\* one turn of the loop
loopTurn(g, fr, junk) ==
  loopUpdate(loopVisit(g, fr,
                       configOf(fr.gc.current, fr.support,
                                VLen(g.neighbors[fr.node]), fr.add),
                       junk),
             incr(fr.gc))

\* the positions of the node itself and of the second action among the
\* neighbors of node, as counts added to every configuration
loopAdd(g, node, own, second, ind2) ==
  [x \in DOMAIN g.neighbors[node] |->
     (IF own /\ x = lastIndex(g.neighbors[node], node) THEN 1 ELSE 0)
     + (IF second /\ x = ind2 THEN 1 ELSE 0)]

\* getSymMixedPayoff(node, s) on a pure node, up to the loop; an empty support
\* makes support.at(0) throw
SymLoopEnter(i) ==
  /\ CanCall
  /\ frame[i] = Idle
  /\ \E node \in 0 .. agg[i].numActionNodes - 1, s \in SymOffered(agg[i]) :
       /\ agg[i].isPure[node]
       /\ IF VLen(loopSupport(agg[i], node, -1, s)) = 0
            THEN /\ ret' = [op |-> "getSymMixedPayoffNode", node |-> node, s |-> s,
                            ub |-> FALSE, inst |-> i,
                            res |-> [ok |-> FALSE, err |-> "out_of_range"]]
                 /\ calls' = calls + 1
                 /\ UNCHANGED frame
            ELSE /\ frame' = [frame EXCEPT ![i] =
                      loopStart("sym",
                                [op |-> "getSymMixedPayoffNode", node |-> node, s |-> s],
                                agg[i], node, -1, s, agg[i].numPlayers - 1,
                                loopAdd(agg[i], node, TRUE, FALSE, -1))]
                 /\ UNCHANGED <<ret, calls>>
  /\ UNCHANGED <<agg, d, temp>>

\* the number of players of plClass that getSymConfigProb integrates over
confPlayers(g, plClass, ownPlClass, plClass2) ==
  VLen(g.playerClasses[plClass])
    - (IF plClass = ownPlClass THEN 1 ELSE 0)
    - (IF plClass = plClass2 THEN 1 ELSE 0)

\* the class strategies offered to getSymConfigProb
ClassOffered(g, plClass) == Simplex(getNumKSymActions(g, plClass))

\* getSymConfigProb on a pure node, up to the loop
ConfLoopEnter(i) ==
  /\ CanCall
  /\ frame[i] = Idle
  /\ \E plClass \in Classes(agg[i]), ownPlClass \in Classes(agg[i]), f2 \in Forced(agg[i]) :
       \E act \in 0 .. getNumKSymActions(agg[i], ownPlClass) - 1 :
         \E s \in ClassOffered(agg[i], plClass) :
           /\ agg[i].isPure[agg[i].uniqueActionSets[ownPlClass][act]]
           /\ confPlayers(agg[i], plClass, ownPlClass, f2[1]) >= 0
           /\ frame' = [frame EXCEPT ![i] =
                loopStart("conf",
                          [op |-> "getSymConfigProb", plClass |-> plClass, s |-> s,
                           ownPlClass |-> ownPlClass, act |-> act,
                           plClass2 |-> f2[1], act2 |-> f2[2]],
                          agg[i], agg[i].uniqueActionSets[ownPlClass][act],
                          agg[i].playerClasses[plClass][0], s,
                          confPlayers(agg[i], plClass, ownPlClass, f2[1]),
                          loopAdd(agg[i], agg[i].uniqueActionSets[ownPlClass][act],
                                  plClass = ownPlClass, plClass = f2[1],
                                  IF f2[1] >= 0
                                    THEN lastIndex(
                                           agg[i].neighbors[
                                             agg[i].uniqueActionSets[ownPlClass][act]],
                                           agg[i].uniqueActionSets[f2[1]][f2[2]])
                                    ELSE -1))]
  /\ UNCHANGED <<agg, d, temp, ret, calls>>

\* one turn of the loop: the body, gc.incr(), and either the break or the
\* update of prob
LoopTurn(i) ==
  /\ frame[i].pc = "loop"
  /\ \E junk \in Junk :
       /\ loopTurn(agg[i], frame[i], junk).ub \/ junk = Zero
       /\ frame' = [frame EXCEPT ![i] = loopTurn(agg[i], frame[i], junk)]
  /\ UNCHANGED <<agg, d, temp, ret, calls>>

\* the call returns V, or leaves dest to its caller
LoopReturn(i) ==
  /\ frame[i].pc = "return"
  /\ frame' = [frame EXCEPT ![i] = Idle]
  /\ ret' = frame[i].call @@
            [inst |-> i, ub |-> frame[i].ub,
             res |-> IF frame[i].kind = "sym" THEN Val(frame[i].V)
                     ELSE Val(frame[i].dest)]
  /\ calls' = calls + 1
  /\ UNCHANGED <<agg, d, temp>>

NextLoop ==
  \E i \in Solo :
    \/ SymLoopEnter(i)
    \/ ConfLoopEnter(i)
    \/ LoopTurn(i)
    \/ LoopReturn(i)

SpecLoop == Init /\ [][NextLoop]_vars

(***************************************************************************)
(* The tree layout of the extensive-form display (efglayout.cc):           *)
(* m_nodeList holds one entry per node of the game tree, in the order of   *)
(* the depth-first walk of BuildNodeList, each with the level of its node. *)
(* A tree is given by the parent of each node, node 0 being the root and   *)
(* the children of a node standing in the order of their numbers.          *)
(***************************************************************************)
Trees ==
  UNION {{[n |-> n, parent |-> par] :
            par \in {f \in [0 .. n - 1 -> -1 .. n - 2] :
                       /\ f[0] = -1
                       /\ \A x \in 1 .. n - 1 : f[x] >= 0 /\ f[x] < x}} :
         n \in 1 .. MaxNodes}

\* BuildNodeList(p_node, p_support, p_level): the entry of the node is pushed,
\* then the subtrees of its children in order; c is the next child looked at
RECURSIVE BuildNode(_, _, _, _)
RECURSIVE BuildChildren(_, _, _, _, _)
BuildNode(tr, p_node, p_level, list) ==
  BuildChildren(tr, p_node, p_level,
                VAppend(list, [node |-> p_node, level |-> p_level]), 0)

BuildChildren(tr, p_node, p_level, list, c) ==
  IF c >= tr.n THEN list
  ELSE BuildChildren(tr, p_node, p_level,
                     IF tr.parent[c] = p_node THEN BuildNode(tr, c, p_level + 1, list)
                     ELSE list,
                     c + 1)

\* BuildNodeList(p_support): the list is cleared and rebuilt from the root
BuildNodeList(tr) == [m_nodeList |-> BuildNode(tr, 0, 0, Vec(<<>>))]

\* GetEntry(p_node): the position of the first entry of the node, -1 for null
GetEntry(lay, p_node) ==
  IF \E x \in DOMAIN lay.m_nodeList : lay.m_nodeList[x].node = p_node
    THEN CHOOSE x \in DOMAIN lay.m_nodeList :
           /\ lay.m_nodeList[x].node = p_node
           /\ \A y \in DOMAIN lay.m_nodeList : lay.m_nodeList[y].node = p_node => x <= y
    ELSE -1

NullNode == [null |-> TRUE]
Node(x) == [null |-> FALSE, node |-> x]

\* one evaluation of the loop of PriorSameLevel: e is the position the reverse
\* iterator stands at, -1 for rend(); the body does not move e
PriorScan(lay, fr) ==
  IF fr.e = -1 THEN [fr EXCEPT !.pc = "return", !.res = NullNode]
  ELSE IF lay.m_nodeList[fr.e].level = lay.m_nodeList[fr.entry].level
    THEN [fr EXCEPT !.pc = "return", !.res = Node(lay.m_nodeList[fr.e].node)]
  ELSE fr

\* one evaluation of the loop of NextSameLevel: e is the position the iterator
\* stands at, the length of the list for end()
NextScan(lay, fr) ==
  IF fr.e = VLen(lay.m_nodeList) THEN [fr EXCEPT !.pc = "return", !.res = NullNode]
  ELSE IF lay.m_nodeList[fr.e].level = lay.m_nodeList[fr.entry].level
    THEN [fr EXCEPT !.pc = "return", !.res = Node(lay.m_nodeList[fr.e].node)]
  ELSE [fr EXCEPT !.e = fr.e + 1]

\* the locals of PriorSameLevel (dir = -1) and NextSameLevel (dir = 1) before
\* the loop: without an entry the call returns null at once
SameLevelStart(lay, fn, p_node, dir) ==
  IF GetEntry(lay, p_node) = -1
    THEN [pc |-> "return", fn |-> fn, p_node |-> p_node, entry |-> -1, e |-> -1,
          res |-> NullNode]
    ELSE [pc |-> "scan", fn |-> fn, p_node |-> p_node,
          entry |-> GetEntry(lay, p_node), e |-> GetEntry(lay, p_node) + dir,
          res |-> NullNode]

InitLayout == InitBuild

\* Layout(p_support) on a new layout object: the list is built
Layout(i) ==
  /\ ret.op = "none"
  /\ \E tr \in Trees :
       /\ agg' = [agg EXCEPT ![i] = BuildNodeList(tr)]
       /\ ret' = [op |-> "Layout", inst |-> i, tr |-> tr]
  /\ UNCHANGED <<d, temp, calls, frame>>

\* the layout has been built
Laid(i) == ret.op # "none"

PriorSameLevel(i) ==
  /\ CanCall
  /\ Laid(i)
  /\ frame[i] = Idle
  /\ \E p_node \in 0 .. MaxNodes - 1 :
       frame' = [frame EXCEPT ![i] = SameLevelStart(agg[i], "PriorSameLevel", p_node, -1)]
  /\ UNCHANGED <<agg, d, temp, ret, calls>>

NextSameLevel(i) ==
  /\ CanCall
  /\ Laid(i)
  /\ frame[i] = Idle
  /\ \E p_node \in 0 .. MaxNodes - 1 :
       frame' = [frame EXCEPT ![i] = SameLevelStart(agg[i], "NextSameLevel", p_node, 1)]
  /\ UNCHANGED <<agg, d, temp, ret, calls>>

\* the loop condition and body of the call in progress, once
SameLevelScan(i) ==
  /\ frame[i].pc = "scan"
  /\ frame' = [frame EXCEPT ![i] =
                 IF frame[i].fn = "PriorSameLevel" THEN PriorScan(agg[i], frame[i])
                 ELSE NextScan(agg[i], frame[i])]
  /\ UNCHANGED <<agg, d, temp, ret, calls>>

SameLevelReturn(i) ==
  /\ frame[i].pc = "return"
  /\ frame' = [frame EXCEPT ![i] = Idle]
  /\ ret' = [op |-> frame[i].fn, inst |-> i, p_node |-> frame[i].p_node,
             res |-> frame[i].res]
  /\ calls' = calls + 1
  /\ UNCHANGED <<agg, d, temp>>

NextLayout ==
  \E i \in Solo :
    \/ Layout(i)
    \/ PriorSameLevel(i)
    \/ NextSameLevel(i)
    \/ SameLevelScan(i)
    \/ SameLevelReturn(i)

SpecLayout == InitLayout /\ [][NextLayout]_vars

\* the thread of the call keeps running
SpecLayoutLive == SpecLayout /\ WF_vars(NextLayout)

(***************************************************************************)
(* Properties of the oracle.  ret is the record of the last call: its      *)
(* operation, its arguments and its result; agg[ret.inst] is the object    *)
(* the call left behind.                                                   *)
(***************************************************************************)
Called(ops) == ret.op \in ops

\* the indices of player q's segment of a mixed profile
segment(g, q) == g.strategyOffset[q] .. g.strategyOffset[q + 1] - 1

\* s is a mixed profile of g: the right length, no negative entry, every
\* player's segment summing to 1
ValidProfile(g, s) ==
  /\ DOMAIN s = 0 .. g.totalActions - 1
  /\ \A x \in DOMAIN s : ~QLess(s[x], Zero)
  /\ \A q \in Players(g) : QSum(s, segment(g, q)) = One

\* s is a strategy over the action nodes
ValidSym(g, s) ==
  /\ DOMAIN s = 0 .. g.numActionNodes - 1
  /\ \A x \in DOMAIN s : ~QLess(s[x], Zero)
  /\ QSum(s, DOMAIN s) = One

\* the product of f[x] over x in S
RECURSIVE QProd(_, _)
QProd(f, S) ==
  IF S = {} THEN One
  ELSE LET x == CHOOSE y \in S : TRUE
       IN  QMul(f[x], QProd(f, S \ {x}))

\* the configuration of node v when player q plays sigma[q]: each neighbor
\* position j composed over the players under the composer of j
RECURSIVE RefCompose(_, _, _, _, _)
RefCompose(g, v, sigma, j, q) ==
  IF q = 0 THEN g.projection[v][0][sigma[0]][j]
  ELSE ProjCombine(g.projFunctions[v][j], RefCompose(g, v, sigma, j, q - 1),
                   g.projection[v][q][sigma[q]][j])

RefConfig(g, v, sigma) ==
  [j \in DOMAIN g.neighbors[v] |-> RefCompose(g, v, sigma, j, g.numPlayers - 1)]

\* the probability that the players other than p play sigma under s
RefWeight(g, p, sigma, s) ==
  QProd([q \in Players(g) \ {p} |-> s[g.strategyOffset[q] + sigma[q]]],
        Players(g) \ {p})

\* the pure profiles in which p plays a and the others play inside their support
RefSupport(g, p, a, s) ==
  {sigma \in PureProfiles(g) : sigma[p] = a /\ QPos(RefWeight(g, p, sigma, s))}

\* the expected payoff of p playing a against s, summed profile by profile
RefV(g, p, a, s) ==
  QSum([sigma \in RefSupport(g, p, a, s) |->
          QMul(RefWeight(g, p, sigma, s),
               g.payoffs[g.actionSets[p][a]][RefConfig(g, g.actionSets[p][a], sigma)])],
       RefSupport(g, p, a, s))

\* every configuration RefV reads is a key of the node's payoff table
RefDefined(g, p, a, s) ==
  \A sigma \in RefSupport(g, p, a, s) :
    RefConfig(g, g.actionSets[p][a], sigma) \in DOMAIN g.payoffs[g.actionSets[p][a]]

\* the pure profiles whose indicator is the mixed profile s
PureOf(g, s) == {sigma \in PureProfiles(g) : indicator(g, sigma) = s}

\* C1 as stated: for every constructed game, every player p and every pure
\* profile sigma, getMixedPayoff(p, indicator(sigma)) is what
\* getPurePayoff(p, sigma) returns.
C1_Stated ==
  Called({"getMixedPayoff"}) =>
    \A sigma \in PureOf(agg[ret.inst], ret.s) :
      ret.res = getPurePayoff(agg[ret.inst], ret.player, sigma).res

\* C1 amended: getMixedPayoff(p, indicator(sigma)) equals
\* getPurePayoff(p, sigma) whenever getPurePayoff finds the configuration of
\* sigma in the payoff table of its node; when the configuration is not a key,
\* getPurePayoff raises its error and getMixedPayoff still returns a value.
C1_Amended ==
  Called({"getMixedPayoff"}) =>
    \A sigma \in PureOf(agg[ret.inst], ret.s) :
      /\ ret.res.ok
      /\ getPurePayoff(agg[ret.inst], ret.player, sigma).res.ok
           => ret.res = getPurePayoff(agg[ret.inst], ret.player, sigma).res

\* getMixedPayoff has returned a positive payoff for the indicator of a pure
\* profile, as the second call on the object
C1_Witness ==
  /\ Called({"getMixedPayoff"})
  /\ calls = 2
  /\ \E sigma \in PureOf(agg[ret.inst], ret.s) :
       /\ getPurePayoff(agg[ret.inst], ret.player, sigma).res.ok
       /\ sigma[ret.player] = 1
       /\ QPos(ret.res.val)

\* C2: getV(p, a, s) on a mixed profile s is the sum, over the pure choices of
\* the players other than p, of the product of their probabilities times the
\* payoff of node actionSets[p][a] at the configuration composed from
\* projection[v][p][a] and the others' projections, p's own mixture not
\* applied (the payoff table holding every configuration of the sum).
C2_getV ==
  /\ Called({"getV"})
  /\ ValidProfile(agg[ret.inst], ret.s)
  /\ RefDefined(agg[ret.inst], ret.player, ret.act, ret.s)
  => ret.res = Val(RefV(agg[ret.inst], ret.player, ret.act, ret.s))

\* getV has returned a positive payoff in a three-player game against two
\* players who both mix, as the second call on the object
C2_Witness ==
  /\ Called({"getV"})
  /\ calls = 2
  /\ agg[ret.inst].numPlayers = 3
  /\ ValidProfile(agg[ret.inst], ret.s)
  /\ Cardinality({x \in DOMAIN ret.s : ret.s[x] = AggNumber(1, 2)}) = 4
  /\ Cardinality(RefSupport(agg[ret.inst], ret.player, ret.act, ret.s)) = 4
  /\ QPos(ret.res.val)

\* the sum over the actions a of player p of s[p,a] * getV(p, a, s)
RefMixed(g, p, s) ==
  QSum([a \in 0 .. g.actions[p] - 1 |->
          QMul(s[g.strategyOffset[p] + a], getV(g, p, a, s).res.val)],
       0 .. g.actions[p] - 1)

\* C3: for every player p and every mixed profile s, getMixedPayoff(p, s) is
\* exactly the sum over the actions a of p of s[p,a] * getV(p, a, s).
C3_getMixedPayoff ==
  Called({"getMixedPayoff"}) /\ ValidProfile(agg[ret.inst], ret.s)
    => ret.res = Val(RefMixed(agg[ret.inst], ret.player, ret.s))

\* getMixedPayoff has returned a positive payoff to a player who mixes two
\* actions of different payoff
C3_Witness ==
  /\ Called({"getMixedPayoff"})
  /\ ValidProfile(agg[ret.inst], ret.s)
  /\ \A a \in 0 .. 1 :
       ret.s[agg[ret.inst].strategyOffset[ret.player] + a] = AggNumber(1, 2)
  /\ getV(agg[ret.inst], ret.player, 0, ret.s).res
       # getV(agg[ret.inst], ret.player, 1, ret.s).res
  /\ QPos(ret.res.val)

\* s with player q's segment replaced by the indicator of action a
Forcing(g, s, q, a) ==
  [x \in DOMAIN s |->
     IF x \in segment(g, q)
       THEN (IF x = g.strategyOffset[q] + a THEN One ELSE Zero)
       ELSE s[x]]

\* C4: getJ(p1, a1, p2, a2, s) with p2 # p1 is getV(p1, a1, s') for s' the
\* profile s with p2's segment replaced by the indicator of a2; what s gives
\* to p2 does not enter the result.
C4_getJ ==
  Called({"getJ"}) =>
    ret.res = getV(agg[ret.inst], ret.player, ret.act,
                   Forcing(agg[ret.inst], ret.s, ret.player2, ret.act2)).res

\* getJ has returned a payoff that getV on the same profile does not return,
\* player p2 mixing in s
C4_Witness ==
  /\ Called({"getJ"})
  /\ ValidProfile(agg[ret.inst], ret.s)
  /\ ret.s[agg[ret.inst].strategyOffset[ret.player2] + ret.act2] = AggNumber(1, 2)
  /\ ret.res # getV(agg[ret.inst], ret.player, ret.act, ret.s).res
  /\ QPos(ret.res.val)

\* the configuration getPurePayoff(p, sigma) looks up is not a key of the
\* payoff table of its node
MissingKey(g, p, sigma) ==
  RefConfig(g, g.actionSets[p][sigma[p]], sigma)
    \notin DOMAIN g.payoffs[g.actionSets[p][sigma[p]]]

\* C5: when the configuration built by getPurePayoff(p, sigma) is not a key of
\* the payoff table of node actionSets[p][sigma[p]], the call raises the error
\* naming that configuration and that node, returns no value, and leaves the
\* game object as it was.
C5_MissingKey ==
  [][Called({"getPurePayoff"})' /\ calls' = calls + 1
       /\ MissingKey(agg[ret'.inst], ret'.player, ret'.s)
     => /\ ret'.res = [ok |-> FALSE, err |-> "unable to find configuration",
                       config |-> RefConfig(agg[ret'.inst],
                                    agg[ret'.inst].actionSets[ret'.player]
                                                            [ret'.s[ret'.player]],
                                    ret'.s),
                       node |-> agg[ret'.inst].actionSets[ret'.player]
                                                        [ret'.s[ret'.player]]]
        /\ agg' = agg]_vars

\* getPurePayoff has raised its error on a configuration missing from the table
C5_Witness ==
  /\ Called({"getPurePayoff"})
  /\ MissingKey(agg[ret.inst], ret.player, ret.s)
  /\ ~ret.res.ok

\* C6 as stated: every oracle call that takes a mixed profile raises a domain
\* error when the profile has a negative entry or a wrong length, and returns
\* no payoff for it.
C6_Stated ==
  /\ Called({"getV", "getMixedPayoff", "getPayoffVector", "getJ"})
       /\ ~ValidProfile(agg[ret.inst], ret.s)
     => ~ret.res.ok
  /\ Called({"getSymMixedPayoff", "getSymPayoffVector", "getSymMixedPayoffNode"})
       /\ ~ValidSym(agg[ret.inst], ret.s)
     => ~ret.res.ok

\* C7 as stated: getSymMixedPayoff(s), getSymPayoffVector(dest, s) and
\* getSymMixedPayoff(node, s) raise the error of a game that is not symmetric
\* when the game has more than one player class.
C7_Stated ==
  Called({"getSymMixedPayoff", "getSymPayoffVector", "getSymMixedPayoffNode"})
    /\ ~isSymmetric(agg[ret.inst])
  => ret.res = NotSymmetric

\* the value the call of frame fr returns on the object g when no other call
\* runs between its statements
Alone(g, fr) ==
  kSymRun(g, reset, reset,
          kSymStart(fr.ss, fr.pClass1, fr.act1, fr.pClass2, fr.act2)).res

\* C8 as stated: two calls of getKSymMixedPayoff on two distinct game objects,
\* their statements interleaved in any way, each return the value they return
\* when one call runs after the other.
C8_Stated ==
  \A i \in DOMAIN frame :
    frame[i].pc = "done" => frame[i].res = Alone(agg[i], frame[i])

\* the fields of a game object that are not the scratch buffers
Tables(g) == [f \in (DOMAIN g) \ {"projectedStrat", "Pr"} |-> g[f]]

\* C9: an oracle call leaves payoffs, projection, Porder, actionSets,
\* neighbors, projFunctions and the player-class tables of the game object
\* unchanged: of the object's fields, projectedStrat and Pr are all it modifies.
C9_Frame ==
  [][\A i \in DOMAIN agg : Tables(agg'[i]) = Tables(agg[i])]_vars

\* two calls have been made, the second a k-symmetric one: the object's
\* projectedStrat and Pr are no longer those of construction, and the tables
\* are those of construction
C9_Witness ==
  /\ calls = 2
  /\ Called({"getKSymMixedPayoffAct", "getKSymMixedPayoff", "getKSymPayoffVector"})
  /\ \E g \in Games :
       /\ Tables(g) = Tables(agg[ret.inst])
       /\ g.projectedStrat # agg[ret.inst].projectedStrat
       /\ g.Pr # agg[ret.inst].Pr

\* C10 as stated: for every player p and pure profile sigma,
\* getMinPayoff() <= getPurePayoff(p, sigma) <= getMaxPayoff().
C10_Stated ==
  /\ Called({"getMaxPayoff"}) =>
       \A p \in Players(agg[ret.inst]), sigma \in PureProfiles(agg[ret.inst]) :
         getPurePayoff(agg[ret.inst], p, sigma).res.ok
           => ~QLess(ret.res.val, getPurePayoff(agg[ret.inst], p, sigma).res.val)
  /\ Called({"getMinPayoff"}) =>
       \A p \in Players(agg[ret.inst]), sigma \in PureProfiles(agg[ret.inst]) :
         getPurePayoff(agg[ret.inst], p, sigma).res.ok
           => ~QLess(getPurePayoff(agg[ret.inst], p, sigma).res.val, ret.res.val)

\* the game of Scenario A: the coordination game as its file gives it
ScenarioA(g) == Tables(g) = Tables(makeAGG(Coordination).agg)

\* both players play both actions with probability 1/2
Uniform == [x \in 0 .. 3 |-> AggNumber(1, 2)]

\* a call for player 0 against the uniform profile on the game of Scenario A
OnScenarioA(op) ==
  /\ Called({op})
  /\ ScenarioA(agg[ret.inst])
  /\ ret.player = 0
  /\ ret.s = Uniform

\* C19 as stated: on the game of Scenario A with the uniform profile s,
\* getV(0, 0, s) = 1/2 and getMixedPayoff(0, s) = 1/2.
C19_Stated ==
  /\ OnScenarioA("getV") /\ ret.act = 0 => ret.res = Val(AggNumber(1, 2))
  /\ OnScenarioA("getMixedPayoff") => ret.res = Val(AggNumber(1, 2))

\* C19 amended: on the game of Scenario A with the uniform profile s,
\* getV(0, 0, s) = 1 and getMixedPayoff(0, s) = 1.
C19_Amended ==
  /\ OnScenarioA("getV") /\ ret.act = 0 => ret.res = Val(One)
  /\ OnScenarioA("getMixedPayoff") => ret.res = Val(One)

\* getMixedPayoff(0, s) has returned on the game of Scenario A for the uniform
\* profile, as the second call on the object
C19_Witness ==
  /\ OnScenarioA("getMixedPayoff")
  /\ calls = 2

\* the sum of the weights of the distribution t
Mass(t) == QSum(t, DOMAIN t)

\* C20 as stated: in every reachable state of a constructed game, for every
\* action node v and every player p the weights in projectedStrat[v][p] sum
\* to 1.
C20_Stated ==
  \A i \in DOMAIN agg :
    \A v \in DOMAIN agg[i].projectedStrat : \A p \in Players(agg[i]) :
      Mass(agg[i].projectedStrat[v][p]) = One

\* C20 amended: right after construction every configuration of
\* projectedStrat[v][p] has weight 1, so the weights sum to the number of
\* distinct projections of the actions of p on v; after getV(p, a, s) or
\* getJ(p, a, q, b, s) with a valid profile s, for the node v of the action a
\* of p and every player q the weights in projectedStrat[v][q] sum to 1.
C20_Amended ==
  /\ Called({"constructed"}) =>
       \A i \in DOMAIN agg :
         \A v \in DOMAIN agg[i].projectedStrat : \A p \in Players(agg[i]) :
           /\ \A c \in DOMAIN agg[i].projectedStrat[v][p] :
                agg[i].projectedStrat[v][p][c] = One
           /\ DOMAIN agg[i].projectedStrat[v][p] =
                {agg[i].projection[v][p][a] : a \in 0 .. agg[i].actions[p] - 1}
  /\ Called({"getV", "getJ"}) /\ ValidProfile(agg[ret.inst], ret.s) =>
       \A q \in Players(agg[ret.inst]) :
         Mass(agg[ret.inst].projectedStrat[
                agg[ret.inst].actionSets[ret.player][ret.act]][q]) = One

\* getV has returned for a valid profile in which some player mixes two
\* actions that project differently on the node of the call, as the second
\* call on the object
C20_Witness ==
  /\ Called({"getV"})
  /\ calls = 2
  /\ ValidProfile(agg[ret.inst], ret.s)
  /\ \E q \in Players(agg[ret.inst]) :
       Cardinality(DOMAIN agg[ret.inst].projectedStrat[
                     agg[ret.inst].actionSets[ret.player][ret.act]][q]) = 2

(***************************************************************************)
(* Properties of the construction from a file.                             *)
(***************************************************************************)
\* makeAGG has returned a game object
Constructed == ret.op = "makeAGG" /\ ret.res.err = "none"

\* makeAGG has ended with the error e
Failed(e) == ret.op = "makeAGG" /\ ret.res.err = e

\* the configurations of node v over the pure profiles in which some player
\* plays v
RefReachable(g, v) ==
  {RefConfig(g, v, sigma) :
     sigma \in {f \in PureProfiles(g) :
                  \E p \in Players(g) : g.actionSets[p][f[p]] = v}}

\* C11 as stated: after construction from a file, the key set of payoffs[v] is
\* exactly the set of configurations of v reachable over the pure profiles in
\* which some player plays v, and so getPurePayoff never fails on a missing
\* configuration.
C11_Stated ==
  Constructed =>
    /\ \A v \in DOMAIN agg[ret.inst].payoffs :
         DOMAIN agg[ret.inst].payoffs[v] = RefReachable(agg[ret.inst], v)
    /\ \A p \in Players(agg[ret.inst]), sigma \in PureProfiles(agg[ret.inst]) :
         getPurePayoff(agg[ret.inst], p, sigma).res.ok

\* the table reader has ended
Read == ret.op = "makeMAPPINGpayoff"

\* the positions of the table whose key an earlier position has given
repeats(entries) ==
  {j \in DOMAIN entries : \E h \in 0 .. j - 1 : entries[h].key = entries[j].key}

\* the acceptance keys the table gives no utility for
omitted(entries, pay) ==
  {k \in DOMAIN pay : \A j \in DOMAIN entries : entries[j].key # k}

\* C12 as stated: the reading succeeds only if every key of the acceptance set
\* is specified exactly once; a repeated key produces the 'overwriting utility'
\* error naming a repeated key, and an omitted key produces the 'not specified'
\* error naming an omitted key.
C12_Stated ==
  Read =>
    /\ ret.res.err = "none" =>
         \A k \in DOMAIN ret.pay :
           Cardinality({j \in DOMAIN ret.entries : ret.entries[j].key = k}) = 1
    /\ repeats(ret.entries) # {} =>
         /\ ret.res.err = "overwriting utility"
         /\ \E j \in repeats(ret.entries) : ret.res.key = ret.entries[j].key
    /\ omitted(ret.entries, ret.pay) # {} =>
         /\ ret.res.err = "not specified"
         /\ ret.res.key \in omitted(ret.entries, ret.pay)

\* C12 amended: the reading succeeds only if every key of the acceptance set
\* is specified exactly once and no key is given twice; a repeated key produces
\* the 'overwriting utility' error naming the key of the first entry that
\* repeats an earlier one; an omitted key produces the 'not specified' error
\* naming an omitted key only when the table repeats no key, the repetition
\* being reported first otherwise.
C12_Amended ==
  Read =>
    /\ ret.res.err = "none" =>
         /\ repeats(ret.entries) = {}
         /\ \A k \in DOMAIN ret.pay :
              Cardinality({j \in DOMAIN ret.entries : ret.entries[j].key = k}) = 1
    /\ repeats(ret.entries) # {} =>
         /\ ret.res.err = "overwriting utility"
         /\ \E j \in repeats(ret.entries) :
              /\ \A h \in repeats(ret.entries) : j <= h
              /\ ret.res.key = ret.entries[j].key
    /\ omitted(ret.entries, ret.pay) # {} /\ repeats(ret.entries) = {} =>
         /\ ret.res.err = "not specified"
         /\ ret.res.key \in omitted(ret.entries, ret.pay)

\* a table of three entries that leaves out a key of the acceptance set and
\* gives another key twice has been refused for the repetition
C12_Witness ==
  /\ Read
  /\ VLen(ret.entries) = 3
  /\ omitted(ret.entries, ret.pay) # {}
  /\ repeats(ret.entries) = {2}
  /\ ret.res.err = "overwriting utility"

\* the positions of the table whose key is not in the acceptance set
unexpected(entries, pay) == {j \in DOMAIN entries : entries[j].key \notin DOMAIN pay}

\* C13 as stated: the MAPPING reading raises an error on a key that is not in
\* the acceptance set, and no table holding a key outside the acceptance set
\* is ever accepted.
C13_Stated ==
  Read =>
    /\ unexpected(ret.entries, ret.pay) # {} => ret.res.err # "none"
    /\ ret.res.err = "none" => DOMAIN ret.res.pay \subseteq DOMAIN ret.pay

\* the players of the file gf whose action list is not strictly ascending
notStrict(gf) ==
  {i \in DOMAIN gf.ASets :
     \E j \in DOMAIN gf.ASets[i] : j > 0 /\ gf.ASets[i][j - 1] >= gf.ASets[i][j]}

\* C14 as stated: construction fails whenever the action list of some player
\* is not strictly ascending, duplicates included, and the error for an action
\* list out of order names such a player.
C14_Stated ==
  ret.op = "makeAGG" /\ notStrict(ret.gf) # {} =>
    /\ ret.res.err # "none"
    /\ ret.res.err = "not ascending" => ret.res.at \in notStrict(ret.gf)

\* the function nodes of the file gf
FNodes(gf) == gf.S .. gf.S + gf.P - 1

\* the function-node neighbors of the function node g
fNeighbors(gf, g) == {gf.neighb[g][k] : k \in DOMAIN gf.neighb[g]} \cap FNodes(gf)

\* the function nodes reached from the nodes of front by one edge or more
RECURSIVE fReach(_, _, _)
fReach(gf, front, seen) ==
  IF UNION {fNeighbors(gf, g) : g \in front} \subseteq seen THEN seen
  ELSE fReach(gf, UNION {fNeighbors(gf, g) : g \in front} \ seen,
              seen \cup UNION {fNeighbors(gf, g) : g \in front})

\* the function nodes on a cycle of the function-node neighbor graph
onCycle(gf) == {g \in FNodes(gf) : g \in fReach(gf, {g}, {})}

\* the edges between function nodes of different projection functions
mismatched(gf) ==
  {e \in FNodes(gf) \X FNodes(gf) :
     /\ e[2] \in fNeighbors(gf, e[1])
     /\ gf.projTypes[e[1] - gf.S] # gf.projTypes[e[2] - gf.S]}

\* every neighbor index of a function node is below S + P
fInRange(gf) ==
  \A g \in FNodes(gf) : \A k \in DOMAIN gf.neighb[g] : gf.neighb[g][k] < gf.S + gf.P

\* makeAGG has ended on a file whose function nodes name no node past the last
Walked == ret.op = "makeAGG" /\ fInRange(ret.gf)

\* C15 as stated: the ancestor computation ends on every file; on an acyclic
\* function-node graph it does not report a cycle, and on a graph with a cycle,
\* a self-loop included, construction fails with the cycle error naming a
\* function node on a cycle.
C15_Stated ==
  Walked =>
    /\ onCycle(ret.gf) = {} => ret.res.err # "cycle"
    /\ onCycle(ret.gf) # {} =>
         ret.res.err = "cycle" /\ ret.res.at \in onCycle(ret.gf)

\* C15 amended: the ancestor computation ends on every file; on an acyclic
\* function-node graph it reports no cycle, and it completes when also no edge
\* joins function nodes of different projection functions; on a graph with a
\* cycle construction fails, with the cycle error naming a function node on a
\* cycle, or with the projection-type-mismatch error for an edge joining
\* function nodes of different projection functions when the walk meets such
\* an edge before it closes a cycle.
C15_Amended ==
  Walked =>
    /\ onCycle(ret.gf) = {} => ret.res.err # "cycle"
    /\ onCycle(ret.gf) = {} /\ mismatched(ret.gf) = {} =>
         ret.res.err \notin {"cycle", "mismatch"}
    /\ onCycle(ret.gf) # {} =>
         \/ ret.res.err = "cycle" /\ ret.res.at \in onCycle(ret.gf)
         \/ /\ ret.res.err = "mismatch"
            /\ <<ret.res.at, ret.res.nei>> \in mismatched(ret.gf)
    /\ onCycle(ret.gf) # {} /\ mismatched(ret.gf) = {} => ret.res.err = "cycle"

\* a file whose function nodes 2 and 3 are neighbors of each other and of the
\* same projection function has been refused with the cycle error
C15_Witness ==
  /\ Walked
  /\ onCycle(ret.gf) = {2, 3}
  /\ 3 \in fNeighbors(ret.gf, 2) /\ 2 \in fNeighbors(ret.gf, 3)
  /\ mismatched(ret.gf) = {}
  /\ ret.res.err = "cycle"

\* C16 as stated: construction fails with the projection-type-mismatch error
\* whenever some function node has a function-node neighbor of a different
\* projection function; no game with such an edge is produced.
C16_Stated ==
  Walked /\ mismatched(ret.gf) # {} => ret.res.err = "mismatch"

\* C16 amended: when some function node has a function-node neighbor of a
\* different projection function, construction fails, with the
\* projection-type-mismatch error naming such an edge or, when the walk closes
\* a cycle before it meets such an edge, with the cycle error; on an acyclic
\* function-node graph the error is the mismatch error; the mismatch error is
\* raised for such edges only, and no game with such an edge is produced.
C16_Amended ==
  Walked =>
    /\ mismatched(ret.gf) # {} =>
         \/ /\ ret.res.err = "mismatch"
            /\ <<ret.res.at, ret.res.nei>> \in mismatched(ret.gf)
         \/ ret.res.err = "cycle" /\ ret.res.at \in onCycle(ret.gf)
    /\ mismatched(ret.gf) # {} /\ onCycle(ret.gf) = {} => ret.res.err = "mismatch"
    /\ ret.res.err = "mismatch" => <<ret.res.at, ret.res.nei>> \in mismatched(ret.gf)
    /\ ret.res.err = "none" => mismatched(ret.gf) = {}

\* a file with an acyclic function-node graph in which a SUM function node has
\* an EXIST function node as neighbor has been refused with the mismatch error
C16_Witness ==
  /\ Walked
  /\ onCycle(ret.gf) = {}
  /\ \E e \in mismatched(ret.gf) :
       /\ ret.gf.projTypes[e[1] - ret.gf.S] = P_SUM
       /\ ret.gf.projTypes[e[2] - ret.gf.S] = P_EXIST
       /\ ret.res = [err |-> "mismatch", at |-> e[1], nei |-> e[2]]

\* the file gf has an action index outside [0, S) or a neighbor index outside
\* [0, S + P)
indexOut(gf) ==
  \/ \E i \in DOMAIN gf.ASets : \E j \in DOMAIN gf.ASets[i] :
       gf.ASets[i][j] < 0 \/ gf.ASets[i][j] >= gf.S
  \/ \E v \in DOMAIN gf.neighb : \E k \in DOMAIN gf.neighb[v] :
       gf.neighb[v][k] < 0 \/ gf.neighb[v][k] >= gf.S + gf.P

\* C17 as stated: makeAGG reports an error for every file with a node index
\* out of range, before the index is used to index a table: it neither
\* returns a game nor reads past the end of a vector.
C17_Stated ==
  ret.op = "makeAGG" /\ indexOut(ret.gf) => ret.res.err \notin {"none", "undefined"}

\* C18 as stated: a comment put between any two consecutive tokens of a valid
\* file, or before the first or after the last, yields a file that parses to
\* the same game.
C18_Stated ==
  ret.op = "readAGG" /\ makeAGGin(Tokens(ret.gf)).err = "none" =>
    /\ ret.res.err = "none"
    /\ agg[ret.inst] = makeAGGin(Tokens(ret.gf)).agg

(***************************************************************************)
(* Properties of the marginalization and of the player classes.            *)
(***************************************************************************)
\* the node of the action of the last getV or getJ call
nodeOf(g) == g.actionSets[ret.player][ret.act]

\* the actions of player q of positive probability that project to k on v
posAt(g, v, q, s, k) ==
  {a \in 0 .. g.actions[q] - 1 :
     g.projection[v][q][a] = k /\ QPos(s[firstAction(g, q) + a])}

\* the actions of player q that project to k on v
allAt(g, v, q, k) == {a \in 0 .. g.actions[q] - 1 : g.projection[v][q][a] = k}

\* the sum of s[q, a] over the actions a in A
sumOver(g, q, s, A) == QSum([a \in A |-> s[firstAction(g, q) + a]], A)

\* the weight of the key k in the distribution t, 0 when k is not a key
weightAt(t, k) == IF k \in DOMAIN t THEN t[k] ELSE Zero

\* no probability of player q in s is negative
nonNegative(g, q, s) ==
  \A a \in 0 .. g.actions[q] - 1 : ~QLess(s[firstAction(g, q) + a], Zero)

\* projectedStrat[v][q] holds the marginal of s for player q on v
Marginal(g, v, q, s) ==
  /\ DOMAIN g.projectedStrat[v][q] =
       {g.projection[v][q][a] : a \in {b \in 0 .. g.actions[q] - 1 :
                                         QPos(s[firstAction(g, q) + b])}}
  /\ \A k \in DOMAIN g.projectedStrat[v][q] :
       g.projectedStrat[v][q][k] = sumOver(g, q, s, posAt(g, v, q, s, k))
  /\ nonNegative(g, q, s) =>
       /\ Mass(g.projectedStrat[v][q]) = sumOver(g, q, s, 0 .. g.actions[q] - 1)
       /\ \A a \in 0 .. g.actions[q] - 1 :
            weightAt(g.projectedStrat[v][q], g.projection[v][q][a]) =
              sumOver(g, q, s, allAt(g, v, q, g.projection[v][q][a]))

\* C21: when getV or getJ returns, for the node v of the call and every player
\* q projectedStrat[v][q] holds exactly the keys of q's actions of positive
\* probability, each with the sum of the probabilities of the actions that
\* project to it; for a player whose probabilities are not negative the total
\* weight is the sum of s[q, a] over q's actions and the weight of each key
\* is the sum of s[q, a] over the actions a with projection[v][q][a] = k.
C21_Marginal ==
  Called({"getV", "getJ"}) =>
    \A q \in Players(agg[ret.inst]) :
      Marginal(agg[ret.inst], nodeOf(agg[ret.inst]), q, ret.s)

\* getV or getJ has returned, as the second call on the object, for a profile
\* without negative entries in which some player gives positive probability
\* to two actions that project to the same key on the node of the call
C21_Witness ==
  /\ Called({"getV", "getJ"})
  /\ calls = 2
  /\ \E q \in Players(agg[ret.inst]) :
       /\ nonNegative(agg[ret.inst], q, ret.s)
       /\ \E k \in DOMAIN agg[ret.inst].projectedStrat[nodeOf(agg[ret.inst])][q] :
            Cardinality(posAt(agg[ret.inst], nodeOf(agg[ret.inst]), q, ret.s, k)) = 2

\* the classes in which player p occurs
classesOf(g, p) ==
  {c \in DOMAIN g.playerClasses : \E r \in DOMAIN g.playerClasses[c] :
                                    g.playerClasses[c][r] = p}

\* the player-class tables of g form a consistent partition
ClassPartition(g) ==
  /\ DOMAIN g.playerClasses = DOMAIN g.uniqueActionSets
  /\ DOMAIN g.kSymStrategyOffset = 0 .. VLen(g.uniqueActionSets)
  /\ \A p \in Players(g) : classesOf(g, p) = {g.player2Class[p]}
  /\ \A c \in DOMAIN g.playerClasses :
       /\ VLen(g.playerClasses[c]) >= 1
       /\ \A r \in DOMAIN g.playerClasses[c] :
            /\ g.playerClasses[c][r] \in Players(g)
            /\ \A h \in DOMAIN g.playerClasses[c] :
                 g.playerClasses[c][h] = g.playerClasses[c][r] => h = r
            /\ g.uniqueActionSets[c] = g.actionSets[g.playerClasses[c][r]]
       /\ g.kSymStrategyOffset[c + 1] - g.kSymStrategyOffset[c] =
            VLen(g.uniqueActionSets[c])
  /\ \A p \in Players(g), q \in Players(g) :
       g.player2Class[p] = g.player2Class[q] <=> g.actionSets[p] = g.actionSets[q]
  /\ g.kSymStrategyOffset[0] = 0
  /\ g.kSymStrategyOffset[VLen(g.uniqueActionSets)] = g.numKSymActions

\* C22: after construction every player p occurs in exactly one
\* playerClasses[c], once, and that c is player2Class[p]; two players are in
\* the same class iff their action sets are equal; uniqueActionSets[c] is the
\* action set of every player of class c; kSymStrategyOffset[c+1] -
\* kSymStrategyOffset[c] = |uniqueActionSets[c]|, and the last offset is
\* numKSymActions.
C22_Classes ==
  Constructed => ClassPartition(agg[ret.inst])

\* makeAGG has built a game of three players in two classes, one class of two
\* players, the players of which are not neighbors in the player order
C22_Witness ==
  /\ Constructed
  /\ agg[ret.inst].numPlayers = 3
  /\ VLen(agg[ret.inst].playerClasses) = 2
  /\ agg[ret.inst].player2Class[0] = agg[ret.inst].player2Class[2]
  /\ agg[ret.inst].player2Class[1] # agg[ret.inst].player2Class[0]

(***************************************************************************)
(* Properties of the ancestor walk.                                        *)
(***************************************************************************)
\* the node reached from x by the neighbor-list positions w[1..j], every node
\* on the way but the last being a function node; -2 when there is no such walk
RECURSIVE follow(_, _, _, _)
follow(gf, x, w, j) ==
  IF j = 0 THEN x
  ELSE IF follow(gf, x, w, j - 1) \notin FNodes(gf) THEN -2
  ELSE IF w[j] \notin DOMAIN gf.neighb[follow(gf, x, w, j - 1)] THEN -2
  ELSE gf.neighb[follow(gf, x, w, j - 1)][w[j]]

\* the neighbor-list positions of the file
positions(gf) == UNION {DOMAIN gf.neighb[x] : x \in DOMAIN gf.neighb}

\* the directed neighbor paths from the function node g to the action node u
\* that pass only through function nodes, each as its sequence of positions
\* (an acyclic graph has none longer than P)
pathsTo(gf, g, u) ==
  {w \in UNION {[1 .. k -> positions(gf)] : k \in 1 .. gf.P} :
     follow(gf, g, w, Len(w)) = u}

\* the ancestor multiset of the function node g as setProjections computes it
ancestors(gf, g) ==
  getAn([u \in 0 .. gf.S - 1 |-> 0], gf.neighb, gf.projTypes, gf.S, g, Vec(<<>>))

\* the function-node graph of the file is one the walk accepts
Acyclic(gf) == fInRange(gf) /\ onCycle(gf) = {} /\ mismatched(gf) = {}

\* C23: on an acyclic function-node graph the ancestor multiset of every
\* function node g holds each action node u as many times as there are
\* directed neighbor paths from g to u through function nodes only, none when
\* there is no path; and in a constructed game the projection of an action on
\* a SUM function-node neighbor other than the action's node is that number.
C23_Paths ==
  ret.op = "makeAGG" /\ Acyclic(ret.gf) =>
    /\ \A g \in FNodes(ret.gf) :
         /\ ancestors(ret.gf, g).err = "none"
         /\ \A u \in 0 .. ret.gf.S - 1 :
              ancestors(ret.gf, g).an[u] = Cardinality(pathsTo(ret.gf, g, u))
    /\ Constructed =>
         \A v \in 0 .. ret.gf.S - 1 : \A k \in DOMAIN ret.gf.neighb[v] :
           ret.gf.neighb[v][k] \in FNodes(ret.gf)
             /\ ret.gf.projTypes[ret.gf.neighb[v][k] - ret.gf.S] = P_SUM =>
               \A i \in Players(agg[ret.inst]) : \A j \in DOMAIN ret.gf.ASets[i] :
                 agg[ret.inst].projection[v][i][j][k] =
                   Cardinality(pathsTo(ret.gf, ret.gf.neighb[v][k], ret.gf.ASets[i][j]))

\* makeAGG has built a game from a file in which two paths lead from a
\* function node to one action node, one direct and one through a second
\* function node
C23_Witness ==
  /\ Constructed
  /\ Acyclic(ret.gf)
  /\ \E g \in FNodes(ret.gf) : \E u \in 0 .. ret.gf.S - 1 :
       /\ ancestors(ret.gf, g).an[u] = 2
       /\ \E w \in pathsTo(ret.gf, g, u) : Len(w) = 1
       /\ \E w \in pathsTo(ret.gf, g, u) : Len(w) = 2

(***************************************************************************)
(* Properties of the composition enumerator.                               *)
(***************************************************************************)
\* the number of ways to choose r of n
RECURSIVE Binomial(_, _)
Binomial(n, r) ==
  IF r = 0 THEN 1 ELSE IF n = 0 THEN 0 ELSE Binomial(n - 1, r - 1) + Binomial(n - 1, r)

\* the sum of the parts of the composition c
RECURSIVE total(_, _)
total(c, j) == IF j = 0 THEN 0 ELSE total(c, j - 1) + c[j - 1]

\* c is a weak composition of n into k parts
Composition(c, n, k) ==
  /\ DOMAIN c = 0 .. k - 1
  /\ \A j \in DOMAIN c : c[j] \in Nat
  /\ total(c, k) = n

\* an enumerator is at work for thread A
Enumerating == frame["A"].pc = "gray"

\* what the enumerator has emitted so far is sound: it began with [n, 0, ...,
\* 0], every composition emitted is a composition of n into k parts, no two
\* are equal, and there are C(n+k-1, k-1) of them once eof() holds
EmittedSound ==
  Enumerating =>
    /\ ret.emitted[1] = [j \in 0 .. frame["A"].k - 1 |->
                           IF j = 0 THEN frame["A"].n ELSE 0]
    /\ \A x \in DOMAIN ret.emitted :
         /\ Composition(ret.emitted[x], frame["A"].n, frame["A"].k)
         /\ \A y \in DOMAIN ret.emitted : ret.emitted[x] = ret.emitted[y] => x = y
    /\ Len(ret.emitted) <= Binomial(frame["A"].n + frame["A"].k - 1, frame["A"].k - 1)
    /\ frame["A"].finished =>
         Len(ret.emitted) = Binomial(frame["A"].n + frame["A"].k - 1, frame["A"].k - 1)

AtEof == Enumerating /\ frame["A"].finished

\* C24: the enumerator started at [N, 0, ..., 0] and advanced with incr()
\* until eof() emits compositions of N into k parts, pairwise distinct,
\* C(N+k-1, k-1) of them in all, and eof() becomes true.
C24_Enumerates == []EmittedSound /\ <>AtEof

\* the enumeration of the compositions of 3 into 3 parts has reached eof after
\* 10 compositions
C24_Witness ==
  /\ AtEof
  /\ frame["A"].n = 3 /\ frame["A"].k = 3
  /\ Len(ret.emitted) = 10

\* the step is an incr() that does not reach eof
Advanced ==
  /\ Enumerating
  /\ frame'["A"].pc = "gray"
  /\ frame'["A"].r = frame["A"].r + 1
  /\ ~frame'["A"].finished

\* C25: an incr() that does not reach eof takes 1 from the part at the exposed
\* index d, adds 1 to the part at the exposed index i, i # d, and leaves every
\* other part as it was; the composition and the indices are those the loops
\* of the symmetric oracle go through (GrayList, GrayD, GrayI).
C25_TwoParts ==
  [][Advanced =>
       /\ frame'["A"].d \in DOMAIN frame["A"].current
       /\ frame'["A"].i \in DOMAIN frame["A"].current
       /\ frame'["A"].i # frame'["A"].d
       /\ frame'["A"].current =
            [frame["A"].current EXCEPT ![frame'["A"].d] = @ - 1,
                                       ![frame'["A"].i] = @ + 1]
       /\ frame'["A"].current = ret'.emitted[Len(ret'.emitted)]
       /\ frame'["A"].current = GrayList(frame["A"].n, frame["A"].k)[frame'["A"].r]
       /\ frame'["A"].d = GrayD(GrayList(frame["A"].n, frame["A"].k), frame'["A"].r)
       /\ frame'["A"].i = GrayI(GrayList(frame["A"].n, frame["A"].k), frame'["A"].r)]_vars

\* incr() has moved a unit from a part to an earlier part that is not its
\* neighbor
C25_Witness ==
  /\ Enumerating
  /\ ~frame["A"].finished
  /\ frame["A"].d >= 0
  /\ frame["A"].i + 1 < frame["A"].d

(***************************************************************************)
(* Properties of the enumeration loop of the symmetric oracle.             *)
(***************************************************************************)
RECURSIVE Factorial(_)
Factorial(n) == IF n = 0 THEN 1 ELSE n * Factorial(n - 1)

\* the product of the factorials of the parts c[0 .. j-1]
RECURSIVE factorials(_, _)
factorials(c, j) == IF j = 0 THEN 1 ELSE factorials(c, j - 1) * Factorial(c[j - 1])

\* the product of q[x] ^ c[x] over the parts c[0 .. j-1]
RECURSIVE powers(_, _, _)
powers(c, q, j) ==
  IF j = 0 THEN One ELSE QMul(powers(c, q, j - 1), QPow(q[j - 1], c[j - 1]))

\* the multinomial probability of the composition c of N under the category
\* probabilities q: N! / prod_j c[j]! * prod_j q[j]^c[j]
Multinomial(N, c, q) ==
  QMul(AggNumber(Factorial(N), factorials(c, VLen(c))), powers(c, q, VLen(c)))

\* the loop of thread A is at the head of a turn, or has just broken out
InLoop == frame["A"].pc \in {"loop", "return"}

\* C26: at every turn of the enumeration loop of the pure-node path, in
\* getSymMixedPayoff(node, s) and in getSymConfigProb, prob is the multinomial
\* probability of the current composition, N being the number of players
\* integrated over and the category probabilities those of the support
\* entries, null_prob for the null entry; and the loop returns what the
\* call computes (where every configuration looked up is a key of the table).
C26_Multinomial ==
  /\ InLoop =>
       /\ Composition(frame["A"].gc.current, frame["A"].gc.n, VLen(frame["A"].support))
       /\ frame["A"].prob =
            Multinomial(frame["A"].gc.n, frame["A"].gc.current, frame["A"].cat)
  /\ Called({"getSymMixedPayoffNode"}) /\ ret.res.ok =>
       /\ ret.ub = getSymMixedPayoffNode(agg[ret.inst], ret.node, ret.s, Zero).ub
       /\ ~ret.ub =>
            ret.res.val =
              getSymMixedPayoffNode(agg[ret.inst], ret.node, ret.s, Zero).res.val
  /\ Called({"getSymConfigProb"}) =>
       ret.res.val = getSymConfigProb(agg[ret.inst], ret.plClass, ret.s, ret.ownPlClass,
                                      ret.act, ret.plClass2, ret.act2).dest

\* the loop over the compositions of 2 into a neighbor and the null category
\* stands at the composition [1, 1], reached by an update of prob
C26_Witness ==
  /\ frame["A"].pc = "loop"
  /\ frame["A"].gc.n = 2
  /\ VLen(frame["A"].support) = 2
  /\ frame["A"].support[1] = -1
  /\ frame["A"].gc.r >= 1
  /\ \E j \in DOMAIN frame["A"].gc.current : frame["A"].gc.current[j] = 1
  /\ frame["A"].prob = AggNumber(1, 2)

(***************************************************************************)
(* The symmetric oracle against the general one.                           *)
(***************************************************************************)
\* all players share the action set [0, S), and there are at least two
SharedActions(g) ==
  /\ g.numPlayers >= 2
  /\ \A p \in Players(g) :
       g.actionSets[p] = [a \in 0 .. g.numActionNodes - 1 |-> a]

\* the full profile in which every player plays s
everyone(g, s) == [x \in 0 .. g.totalActions - 1 |-> s[x % g.numActionNodes]]

\* the last call is getSymMixedPayoff(s) on such a game, s a probability vector
SymCalled ==
  /\ Called({"getSymMixedPayoff"})
  /\ SharedActions(agg[ret.inst])
  /\ ret.s \in Simplex(agg[ret.inst].numActionNodes)

\* C27: on a game whose players share the action set [0, S), with at least
\* two players, getSymMixedPayoff(s) for a probability vector s looks up only
\* configurations that are keys of the payoff tables and returns
\* getMixedPayoff(p, (s, ..., s)) for every player p.
C27_Stated ==
  SymCalled =>
    /\ ~ret.ub
    /\ ret.res.ok
    /\ \A p \in Players(agg[ret.inst]) :
         ret.res.val =
           getMixedPayoff(agg[ret.inst], p, everyone(agg[ret.inst], ret.s)).res.val

(***************************************************************************)
(* The k-symmetric oracle against the general one.                         *)
(***************************************************************************)
\* the player whose strategy holds position x of a full profile
playerAt(g, x) ==
  CHOOSE p \in Players(g) : g.strategyOffset[p] <= x /\ x < g.strategyOffset[p + 1]

\* the full profile in which each player plays the strategy of their class in
\* the class-wise profile s
classwise(g, s) ==
  [x \in 0 .. g.totalActions - 1 |->
     s[firstKSymAction(g, g.player2Class[playerAt(g, x)])
       + (x - firstAction(g, playerAt(g, x)))]]

\* the last call is getKSymMixedPayoff for an action of a class, with no
\* second action forced
KSymCalled ==
  \/ Called({"getKSymMixedPayoffAct"}) /\ ret.pClass2 = -1
  \/ Called({"getKSymMixedPayoffActV"})

asBuilt(g) ==
  CHOOSE g0 \in Games : [g0 EXCEPT !.projectedStrat = g.projectedStrat, !.Pr = g.Pr] = g

\* the scratch tables of the object are not those of its construction
Used(g) == g # asBuilt(g)

\* C29: whatever oracle calls an object has served, getV(p, a, s) returns on it
\* what it returns on the object as constructed: the call resets and rewrites
\* every scratch table it reads, projectedStrat[v][q] for all q and
\* Pr[0 .. n-1], before reading it.
C29_History ==
  Called({"getV"}) =>
    ret.res = getV(asBuilt(agg[ret.inst]), ret.player, ret.act, ret.s).res

\* getV has answered on an object on which an earlier call has filled the
\* scratch tables, those of another node among them
C29_Witness ==
  /\ Called({"getV"})
  /\ calls = 2
  /\ Used(agg[ret.inst])
  /\ ret.res.ok
  /\ ret.res.val # Zero
  /\ \E v \in DOMAIN agg[ret.inst].projectedStrat :
       /\ v # agg[ret.inst].actionSets[ret.player][ret.act]
       /\ agg[ret.inst].projectedStrat[v] # asBuilt(agg[ret.inst]).projectedStrat[v]

(***************************************************************************)
(* Properties of the tree layout.                                          *)
(***************************************************************************)
\* the nearest entry before position x with the level of the entry at x
priorSame(lay, x) ==
  IF \E y \in 0 .. x - 1 : lay.m_nodeList[y].level = lay.m_nodeList[x].level
    THEN Node(lay.m_nodeList[
                CHOOSE y \in 0 .. x - 1 :
                  /\ lay.m_nodeList[y].level = lay.m_nodeList[x].level
                  /\ \A z \in y + 1 .. x - 1 :
                       lay.m_nodeList[z].level # lay.m_nodeList[x].level].node)
    ELSE NullNode

\* PriorSameLevel is running on a node of the list
Scanning ==
  /\ frame["A"].pc = "scan"
  /\ frame["A"].fn = "PriorSameLevel"

\* C30: PriorSameLevel(node) terminates for every node of the node list, the
\* entry just before it being on another level or not, and returns the
\* nearest entry before the node with the node's level, null when there is
\* none.
C30_Stated ==
  /\ Scanning ~> ~Scanning
  /\ [](Called({"PriorSameLevel"}) /\ GetEntry(agg[ret.inst], ret.p_node) # -1 =>
          ret.res = priorSame(agg[ret.inst], GetEntry(agg[ret.inst], ret.p_node)))

====
